---- MODULE Spec2Model ----
(***************************************************************************)
(* A model of the real-time audio-to-text pipeline of qluto/echo           *)
(* (src-tauri/src): the VAD segmenter, the continuous-listening pipeline   *)
(* (streaming capture, VAD thread, transcription worker, supervisor) and   *)
(* the press-to-talk hotkey controller.                                    *)
(*                                                                         *)
(* Audio frames are identified by their capture number (1, 2, 3, ...);     *)
(* every frame holds VAD_FRAME_SIZE samples.                               *)
(***************************************************************************)
EXTENDS Integers, Sequences, FiniteSets, TLC

\* ------------------------------------------------------------------------
\* Program constants
\* ------------------------------------------------------------------------

\* vad.rs: pub const VAD_SAMPLE_RATE
VAD_SAMPLE_RATE == 16000

\* vad.rs: pub const VAD_FRAME_SIZE
VAD_FRAME_SIZE == 512

\* continuous.rs, VadStateMachine::new: pre_buffer_sec = 0.3, in milliseconds
PRE_BUFFER_MS == 300

\* ------------------------------------------------------------------------
\* Bounds of the model
\* ------------------------------------------------------------------------

\* Frames fed to a stand-alone segmenter (SpecSeg).
MaxFrames == 48

\* Frames the audio callback produces in one pipeline session (SpecPipe).
MaxProduced == 15

\* Frames the audio callback produces when the VAD thread lags (SpecCapture).
MaxCaptured == 257

\* Hotkey press/release cycles (SpecHotkey).
MaxCycles == 2

\* Requests the engine client sends in one run (SpecRpc).
MaxRequests == 3

\* Lines the sidecar writes without having been asked (SpecRpc).
MaxStray == 1

\* Frames the audio callback produces in one pipeline of SpecListen.
MaxListen == 3

\* Lines a starting sidecar has in its stdout pipe at one time (SpecStart).
MaxStartLines == 2

\* Input frames (one sample per channel) the driver delivers to one
\* FrameAccumulator (SpecAccum).
MaxDelivered == 1600

\* The number of entries inserted into the history store in a run, and the
\* seconds that pass.
MaxInserts == 2
MaxClock == 1

\* Frames the audio callback produces in a session of two utterances
\* (SpecSession).
MaxSession == 33

\* Frames of speech in an utterance and frames of silence after it
\* (SpecSession).
SpeechRun == 15
PauseRun == 3

\* The configurations VadStateMachine::new is run with: silence tail in
\* milliseconds, maximum segment length in seconds.  The first is the one
\* both callers of ContinuousPipeline::start pass (1.5 s, 60 s).
SegConfigs ==
    { [silence_ms |-> 1500, max_segment_sec |-> 60],
      [silence_ms |-> 100,  max_segment_sec |-> 1] }

VARIABLES
    \* --- detector (vad.rs, VadProcessor) ---
    detector,       \* "none", or the LSTM state: "fresh" or "used"
    \* --- segmenter (continuous.rs, VadStateMachine) ---
    seg_cfg,        \* the arguments VadStateMachine::new was called with
    vsm,            \* the VadStateMachine struct
    nfed,           \* number of frames passed to process so far
    seg_done,       \* the stop-time flush has run (the VAD loop has ended)
    seg_ret,        \* what the last call returned, with what was observed
    sil_run,        \* observed: consecutive silence verdicts up to now
    in_speech,      \* observed: frames received since (and with) the onset
    idle_run,       \* observed: frames received while Idle since last segment
    onset,          \* observed: [frame, idle_before] of the current segment
    \* --- one ContinuousPipeline (continuous.rs, audio_capture.rs) ---
    stop_flag,      \* ContinuousPipeline.stop_flag
    sup_pc,         \* where the caller of ContinuousPipeline::stop is
    stop_msg,       \* a () was sent on StreamingCapture.stop_tx
    cap_pc,         \* the streaming thread: spawned, playing, done
    cb_pc,          \* the driver callback (push_samples): idle, emit
    output_buffer,  \* FrameAccumulator.output_buffer, in samples
    produced,       \* frames drained from output_buffer so far
    frame_q,        \* the bounded channel of frames
    vad_pc,         \* the VAD thread: init, top, recv, done
    seg_q,          \* the bounded channel of SpeechSegment
    wk_pc,          \* the transcription worker: recv, check, done
    segment_count,  \* ContinuousPipeline.segment_count
    files,          \* indices n of the segment_<n>.wav files on disk
    vad_exit,       \* observed: how and in what state the VAD thread ended
    \* --- the application: AppState, hotkey.rs, commands.rs ---
    continuous_pipeline, \* AppState.continuous_pipeline: none, or the state
                         \* of the streaming capture of the pipeline in it
    WAS_LISTENING,       \* hotkey.rs: static WAS_LISTENING
    recording_state,     \* AppState.recording_state
    current_recording,   \* audio thread: current_recording is Some
    key_down,            \* the hotkey is held
    cycle,               \* number of key-downs handled so far
    rt_pc,               \* release thread of each cycle
    rt_file,             \* its captured file_path is Some
    rt_pipe,             \* the pipeline it started and has not stored yet
    ev,                  \* observed: recording-state-change events (and the
                         \* resume) of each cycle, in order
    paused,              \* observed: the key-down stopped a pipeline
    rec_failed,          \* observed: start_recording failed on the key-down
    \* --- the engine client (transcription.rs, ASREngine) and its sidecar ---
    process,             \* ASREngine.process is Some
    child,               \* the sidecar of that handle: none, alive, dead
    request_id,          \* ASREngine.request_id
    engine_lock,         \* the caller holding the Mutex<ASREngine>, or "none"
    rpc_pc,              \* each caller: idle, begin, write, read, returned
    rpc_call,            \* each caller's call: method, id, lines written and
                         \* read, the handle it found, its result
    pipe_in,             \* request lines written and not yet taken by the sidecar
    last_written,        \* the id of the last request line written, if any
    \* --- the mutexes of AppState and who waits for whom ---
    mutex,               \* the owner of each mutex
    lk,                  \* where each command or handler thread is
    pls,                 \* the threads and channels of each pipeline
    pipe_out,            \* lines the sidecar wrote and the client has not read
    stray,               \* unasked lines the sidecar has written so far
    \* --- what the transcription worker did (continuous.rs) ---
    taken,               \* observed: indices of the segments it dequeued
    asr_log,             \* observed: indices it called transcribe for
    db_rows,             \* the rows it inserted into `transcriptions`
    events,              \* the continuous-transcription events it emitted
    \* --- the UI calling the continuous-listening commands (commands.rs) ---
    cmd_ret,             \* what the command it called returned, until it
                         \* has read it: none, or the Ok or Err
    \* --- one FrameAccumulator with its samples (audio_capture.rs) ---
    native_channels,     \* FrameAccumulator.native_channels
    acc_samples,         \* FrameAccumulator.output_buffer, sample by sample
    enqueued,            \* the frames frame_sender.send has accepted, in order
    delivered,           \* observed: input frames the driver has delivered
    frame_rx_alive,      \* the receiver of the frame channel exists
    \* --- the life of a sidecar (transcription.rs, start, stop, Drop) ---
    last_stop,           \* observed: what the last stop did to the child
    st_pc,               \* where ASREngine::start is: idle, loop, read, ok, err
    st_child,            \* the child start has spawned: none, alive, exited,
                         \* killed
    st_lines,            \* the lines in the stdout pipe of that child
    st_elapsed,          \* start.elapsed() > timeout
    \* --- hotkey registration (handy_keys.rs) ---
    current_hotkey,      \* current_hotkey of the manager thread
    reg_ret,             \* observed: the last call, what it returned and
                         \* the hotkey there was before it
    \* --- the system clipboard (clipboard.rs) ---
    clipboard,           \* what the system clipboard holds
    received,            \* the text the frontmost application got last
    paste_ret,           \* observed: the last paste_with_restore, what the
                         \* clipboard held before it, its steps and result
    \* --- the history store (database.rs) ---
    transcriptions,      \* the rows of the table transcriptions
    transcriptions_fts,  \* the rows the FTS5 index holds: rowid and text
    sqlite_sequence,     \* the largest id AUTOINCREMENT has given out
    db_now,              \* the clock of the machine, in seconds
    db_log,              \* observed: the inserts made, with the id returned
    db_ret               \* observed: the last operation and what it returned

seg_vars == <<seg_cfg, vsm, nfed, seg_done, seg_ret, sil_run, in_speech,
              idle_run, onset>>

\* The observations of the stand-alone segmenter.
seg_obs == <<seg_done, seg_ret, sil_run, in_speech, idle_run, onset>>

pipe_vars == <<stop_flag, sup_pc, stop_msg, cap_pc, cb_pc, output_buffer,
               produced, frame_q, vad_pc, seg_q, wk_pc, segment_count, files,
               vad_exit>>

hk_vars == <<continuous_pipeline, WAS_LISTENING, recording_state,
             current_recording, key_down, cycle, rt_pc, rt_file, rt_pipe, ev,
             paused, rec_failed>>

rpc_vars == <<process, child, request_id, engine_lock, rpc_pc, rpc_call,
              pipe_in, pipe_out, stray>>

wk_vars == <<taken, asr_log, db_rows, events>>

cmd_vars == <<cmd_ret>>

acc_vars == <<native_channels, acc_samples, enqueued, delivered,
              frame_rx_alive>>

life_vars == <<last_stop, st_pc, st_child, st_lines, st_elapsed>>

reg_vars == <<current_hotkey, reg_ret>>

clip_vars == <<clipboard, received, paste_ret>>

db_vars == <<transcriptions, transcriptions_fts, sqlite_sequence, db_now,
             db_log, db_ret>>

det_vars == <<detector>>

line_vars == <<last_written>>

lock_vars == <<mutex, lk, pls>>

vars == <<seg_vars, pipe_vars, hk_vars, rpc_vars, wk_vars, cmd_vars,
          acc_vars, life_vars, reg_vars, clip_vars, db_vars, det_vars,
          line_vars, lock_vars>>

\* ------------------------------------------------------------------------
\* The mutexes of AppState and the waits of a pipeline stop (SpecLocks):
\* the threads that take the mutexes, in the order the code takes them,
\* and the threads of the pipelines with the waits of their channels.
\* The slot and WAS_LISTENING are the variables of the hotkey section; the
\* slot holds the name of a pipeline here.
\* ------------------------------------------------------------------------

\* The mutexes of AppState (lib.rs).
Mutexes ==
    {"continuous_pipeline", "settings", "recording_state", "asr_engine",
     "transcription_db"}

\* The threads that run commands and handlers: a command thread of the UI,
\* the thread of the key handler and one release thread.
Drivers == {"ui", "key", "release"}

\* The pipelines whose threads are followed: one at a time.
Pipelines == {"p1"}

\* The threads of a pipeline.
Roles == {"capture", "vad", "worker"}

\* What is kept of a bounded channel: whether a send into it would wait.
\* A channel with room may hold messages or none.
Levels == {"room", "full"}

\* The levels a channel can be at after a send into it.
AfterSend(l) == IF l = "room" THEN {"room", "full"} ELSE {}

\* The level of a channel after a recv from it.
AfterRecv(l) == "room"

\* A pipeline that was not started (or was stopped and dropped).
NoThreads ==
    [capture |-> "none", vad |-> "none", worker |-> "none",
     frames |-> "room", segments |-> "room",
     stop_flag |-> FALSE, stop_tx |-> FALSE]

\* ContinuousPipeline::start has returned Ok: channels made, the three
\* threads spawned. The capture thread opens the device or returns at
\* once; the VAD thread builds its VadProcessor or returns at once.
Spawned(device_ok, vad_ok) ==
    [capture |-> IF device_ok THEN "playing" ELSE "done",
     vad |-> IF vad_ok THEN "loop" ELSE "done",
     worker |-> "recv",
     frames |-> "room", segments |-> "room",
     stop_flag |-> FALSE, stop_tx |-> FALSE]

IdleThread == [op |-> "idle", at |-> 0, pipe |-> "none", victim |-> "none"]

\* The names of threads, as the owners of mutexes and the ends of waits.
Nobody == <<"none", "none">>

Driver(t) == <<"driver", t>>

PipeThread(p, role) == <<p, role>>

\* Program start: no mutex held, no thread inside a command, no pipeline.
NoLockTaken ==
    /\ mutex = [m \in Mutexes |-> Nobody]
    /\ lk = [t \in Drivers |-> IdleThread]
    /\ pls = [p \in Pipelines |-> NoThreads]

LockStep(m) == <<"lock", m>>

UnlockStep(m) == <<"unlock", m>>

\* ContinuousPipeline::stop of the pipeline taken out of the slot: the
\* flag, StreamingCapture::stop (the stop message, the join), the join of
\* the VAD thread, the join of the worker.
StopSteps ==
    << <<"flag">>, <<"stop_tx">>,
       <<"join", "capture">>, <<"join", "vad">>, <<"join", "worker">> >>

\* commands::start_recording: recording_state, then settings inside it.
StartRecordingSteps ==
    << LockStep("recording_state"), LockStep("settings"),
       UnlockStep("settings"), UnlockStep("recording_state") >>

\* A start_asr_engine that looks into the slot of the pipeline while it
\* holds asr_engine.
StartAsrEngineStepsSlotInside ==
    << LockStep("asr_engine"), LockStep("continuous_pipeline"),
       UnlockStep("continuous_pipeline"), UnlockStep("asr_engine") >>

\* commands::start_asr_engine: asr_engine, then settings inside it.
StartAsrEngineSteps ==
    << LockStep("asr_engine"), LockStep("settings"),
       UnlockStep("settings"), UnlockStep("asr_engine") >>

\* The history commands: transcription_db for one query.
HistoryCommandSteps ==
    << LockStep("transcription_db"), UnlockStep("transcription_db") >>

\* commands::start_continuous_listening.
StartContinuousListeningSteps ==
    << LockStep("continuous_pipeline"), <<"if_some_skip", 4>>,
       LockStep("settings"), UnlockStep("settings"), <<"start", 1>>,
       <<"store", 0>>, UnlockStep("continuous_pipeline") >>

\* commands::stop_continuous_listening.
StopContinuousListeningSteps ==
    << LockStep("continuous_pipeline"), <<"take", Len(StopSteps)>> >>
        \o StopSteps \o << UnlockStep("continuous_pipeline") >>

\* hotkey::handle_hotkey_pressed: the pause under the lock of the slot,
\* then settings, then recording_state.
HotkeyPressedSteps ==
    << LockStep("continuous_pipeline"), <<"take", Len(StopSteps) + 1>> >>
        \o StopSteps
        \o << <<"was_listening">>, UnlockStep("continuous_pipeline"),
              LockStep("settings"), UnlockStep("settings"),
              LockStep("recording_state"), UnlockStep("recording_state") >>

\* hotkey::handle_hotkey_released up to the spawn of the release thread.
HotkeyReleasedSteps ==
    << LockStep("recording_state"), UnlockStep("recording_state"),
       LockStep("settings"), UnlockStep("settings"), <<"spawn_release">> >>

\* The release thread: transcribe under asr_engine, then the resume:
\* settings, ContinuousPipeline::start with no lock held, then the store
\* under the lock of the slot, which drops (and so stops) what was there.
ReleaseSteps ==
    << LockStep("asr_engine"), UnlockStep("asr_engine"),
       <<"if_not_was_skip", Len(StopSteps) + 6>>, LockStep("settings"),
       UnlockStep("settings"), <<"start", Len(StopSteps) + 3>>,
       LockStep("continuous_pipeline"), <<"store", Len(StopSteps)>> >>
        \o StopSteps \o << UnlockStep("continuous_pipeline") >>

\* What each thread can be asked to do.
OpsOf(t) ==
    IF t = "ui" THEN {"start_recording", "start_asr_engine",
                      "history", "start_continuous_listening",
                      "stop_continuous_listening"}
    ELSE IF t = "key" THEN {"pressed", "released"}
    ELSE {}

StepsOf(op) ==
    CASE op = "start_recording" -> StartRecordingSteps
      [] op = "start_asr_engine" -> StartAsrEngineSteps
      [] op = "history" -> HistoryCommandSteps
      [] op = "start_continuous_listening" -> StartContinuousListeningSteps
      [] op = "stop_continuous_listening" -> StopContinuousListeningSteps
      [] op = "pressed" -> HotkeyPressedSteps
      [] op = "released" -> HotkeyReleasedSteps
      [] op = "release" -> ReleaseSteps

\* The step a thread is at.
StepAt(t) == StepsOf(lk[t].op)[lk[t].at]

\* The thread after its step, `skip` further steps left out; past the last
\* step the command or handler has returned.
Advance(r, skip) ==
    IF r.at + 1 + skip > Len(StepsOf(r.op)) THEN IdleThread
    ELSE [r EXCEPT !.at = r.at + 1 + skip]

\* The pipelines no one holds: not started, not in the slot, not in the
\* hands of a thread.
FreePipelines ==
    { p \in Pipelines :
        /\ pls[p] = NoThreads
        /\ continuous_pipeline # p
        /\ \A t \in Drivers : lk[t].pipe # p /\ lk[t].victim # p }

\* A thread of a pipeline has returned (or was never started).
Ended(p, role) == pls[p][role] \in {"none", "done"}

\* A command or a handler is called.
DriverBegin(t, op) ==
    /\ lk[t].op = "idle"
    /\ op \in OpsOf(t)
    /\ lk' = [lk EXCEPT ![t] = [IdleThread EXCEPT !.op = op, !.at = 1]]
    /\ UNCHANGED <<mutex, pls, continuous_pipeline, WAS_LISTENING>>

\* The next step of a command or a handler.
DriverStep(t) ==
    /\ lk[t].op # "idle"
    /\ LET r == lk[t]
           s == StepAt(t)
           kind == s[1]
       IN
       CASE kind = "lock" ->
                /\ mutex[s[2]] = Nobody
                /\ mutex' = [mutex EXCEPT ![s[2]] = Driver(t)]
                /\ lk' = [lk EXCEPT ![t] = Advance(r, 0)]
                /\ UNCHANGED <<pls, continuous_pipeline, WAS_LISTENING>>
         [] kind = "unlock" ->
                /\ mutex' = [mutex EXCEPT ![s[2]] = Nobody]
                /\ lk' = [lk EXCEPT ![t] = Advance(r, 0)]
                /\ UNCHANGED <<pls, continuous_pipeline, WAS_LISTENING>>
         [] kind = "if_some_skip" ->
                /\ lk' = [lk EXCEPT ![t] =
                            Advance(r, IF continuous_pipeline # "none"
                                       THEN s[2] ELSE 0)]
                /\ UNCHANGED <<mutex, pls, continuous_pipeline,
                               WAS_LISTENING>>
         [] kind = "if_not_was_skip" ->
                /\ lk' = [lk EXCEPT ![t] =
                            Advance(r, IF WAS_LISTENING THEN 0 ELSE s[2])]
                /\ WAS_LISTENING' = FALSE
                /\ UNCHANGED <<mutex, pls, continuous_pipeline>>
         [] kind = "was_listening" ->
                /\ lk' = [lk EXCEPT ![t] = Advance(r, 0)]
                /\ WAS_LISTENING' = TRUE
                /\ UNCHANGED <<mutex, pls, continuous_pipeline>>
         [] kind = "take" ->
                /\ lk' = [lk EXCEPT ![t] =
                            Advance([r EXCEPT !.victim = continuous_pipeline],
                                    IF continuous_pipeline = "none"
                                    THEN s[2] ELSE 0)]
                /\ continuous_pipeline' = "none"
                /\ UNCHANGED <<mutex, pls, WAS_LISTENING>>
         [] kind = "store" ->
                /\ lk' = [lk EXCEPT ![t] =
                            Advance([r EXCEPT !.victim = continuous_pipeline,
                                              !.pipe = "none"],
                                    IF continuous_pipeline = "none"
                                    THEN s[2] ELSE 0)]
                /\ continuous_pipeline' = r.pipe
                /\ UNCHANGED <<mutex, pls, WAS_LISTENING>>
         [] kind = "start" ->
                /\ \/ \E p \in FreePipelines, device_ok, vad_ok \in BOOLEAN :
                        /\ pls' = [pls EXCEPT ![p] =
                                     Spawned(device_ok, vad_ok)]
                        /\ lk' = [lk EXCEPT ![t] =
                                    Advance([r EXCEPT !.pipe = p], 0)]
                   \/ /\ pls' = pls
                      /\ lk' = [lk EXCEPT ![t] = Advance(r, s[2])]
                /\ UNCHANGED <<mutex, continuous_pipeline, WAS_LISTENING>>
         [] kind = "flag" ->
                /\ pls' = [pls EXCEPT ![r.victim].stop_flag = TRUE]
                /\ lk' = [lk EXCEPT ![t] = Advance(r, 0)]
                /\ UNCHANGED <<mutex, continuous_pipeline, WAS_LISTENING>>
         [] kind = "stop_tx" ->
                /\ pls' = [pls EXCEPT ![r.victim].stop_tx = TRUE]
                /\ lk' = [lk EXCEPT ![t] = Advance(r, 0)]
                /\ UNCHANGED <<mutex, continuous_pipeline, WAS_LISTENING>>
         [] kind = "join" ->
                /\ Ended(r.victim, s[2])
                /\ pls' = IF s[2] = "worker"
                          THEN [pls EXCEPT ![r.victim] = NoThreads]
                          ELSE pls
                /\ lk' = [lk EXCEPT ![t] =
                            Advance(IF s[2] = "worker"
                                    THEN [r EXCEPT !.victim = "none"]
                                    ELSE r, 0)]
                /\ UNCHANGED <<mutex, continuous_pipeline, WAS_LISTENING>>
         [] kind = "spawn_release" ->
                /\ lk["release"].op = "idle"
                /\ lk' = [lk EXCEPT ![t] = Advance(r, 0),
                                    !["release"] =
                                        [IdleThread EXCEPT !.op = "release",
                                                           !.at = 1]]
                /\ UNCHANGED <<mutex, pls, continuous_pipeline,
                               WAS_LISTENING>>

\* streaming_thread:
\* a callback of the stream begins its send of a frame; the send goes
\* through when the frame channel has room, or fails when the VAD thread
\* is gone; with the stop message in and no callback running the stream
\* is dropped and the thread returns.
CaptureStep(p) ==
    /\ \/ /\ pls[p].capture = "playing"
          /\ pls' = [pls EXCEPT ![p].capture = "sending"]
       \/ /\ pls[p].capture = "sending"
          /\ IF pls[p].vad = "done"
             THEN pls' = [pls EXCEPT ![p].capture = "playing"]
             ELSE /\ \E l \in AfterSend(pls[p].frames) :
                        pls' = [pls EXCEPT ![p].capture = "playing",
                                           ![p].frames = l]
       \/ /\ pls[p].capture = "playing"
          /\ pls[p].stop_tx
          /\ pls' = [pls EXCEPT ![p].capture = "done"]
    /\ UNCHANGED <<mutex, lk, continuous_pipeline, WAS_LISTENING>>

\* vad_thread: at the top of the loop the flag (with a
\* segment in progress to flush, or none); a frame received, with or
\* without a segment to send; Disconnected; the send of a segment, which
\* waits for room in the segment channel or fails when the worker is gone.
VadStep(p) ==
    /\ \/ /\ pls[p].vad = "loop"
          /\ pls[p].stop_flag
          /\ \E state \in {"flush", "done"} :
                pls' = [pls EXCEPT ![p].vad = state]
       \/ /\ pls[p].vad = "loop"
          /\ ~pls[p].stop_flag
          /\ \E state \in {"loop", "send"} :
                pls' = [pls EXCEPT ![p].vad = state,
                                   ![p].frames = AfterRecv(pls[p].frames)]
       \/ /\ pls[p].vad = "loop"
          /\ ~pls[p].stop_flag
          /\ pls[p].frames = "room"
          /\ pls[p].capture = "done"
          /\ pls' = [pls EXCEPT ![p].vad = "done"]
       \/ /\ pls[p].vad \in {"send", "flush"}
          /\ IF pls[p].worker = "done"
             THEN pls' = [pls EXCEPT ![p].vad = "done"]
             ELSE /\ \E l \in AfterSend(pls[p].segments) :
                        pls' = [pls EXCEPT
                                  ![p].vad = IF pls[p].vad = "send"
                                             THEN "loop" ELSE "done",
                                  ![p].segments = l]
    /\ UNCHANGED <<mutex, lk, continuous_pipeline, WAS_LISTENING>>

\* transcription_worker and process_segment: a segment received; asr_engine
\* locked for transcribe and unlocked; transcription_db locked for insert
\* and unlocked (or the segment given up before); after a Timeout the
\* flag and is_empty; Disconnected.
WorkerStep(p) ==
    LET me == PipeThread(p, "worker")
    IN
    /\ \/ /\ pls[p].worker = "recv"
          /\ pls' = [pls EXCEPT ![p].worker = "lock_engine",
                             ![p].segments = AfterRecv(pls[p].segments)]
          /\ mutex' = mutex
       \/ /\ pls[p].worker = "recv"
          /\ pls[p].segments = "room"
          /\ pls[p].stop_flag \/ pls[p].vad = "done"
          /\ pls' = [pls EXCEPT ![p].worker = "done"]
          /\ mutex' = mutex
       \/ /\ pls[p].worker = "lock_engine"
          /\ mutex["asr_engine"] = Nobody
          /\ mutex' = [mutex EXCEPT !["asr_engine"] = me]
          /\ pls' = [pls EXCEPT ![p].worker = "transcribe"]
       \/ /\ pls[p].worker = "transcribe"
          /\ mutex' = [mutex EXCEPT !["asr_engine"] = Nobody]
          /\ \E state \in {"lock_db", "recv"} :
                pls' = [pls EXCEPT ![p].worker = state]
       \/ /\ pls[p].worker = "lock_db"
          /\ mutex["transcription_db"] = Nobody
          /\ mutex' = [mutex EXCEPT !["transcription_db"] = me]
          /\ pls' = [pls EXCEPT ![p].worker = "insert"]
       \/ /\ pls[p].worker = "insert"
          /\ mutex' = [mutex EXCEPT !["transcription_db"] = Nobody]
          /\ pls' = [pls EXCEPT ![p].worker = "recv"]
    /\ UNCHANGED <<lk, continuous_pipeline, WAS_LISTENING>>

\* What a step of this section leaves alone.
LocksLeaveAlone ==
    /\ UNCHANGED <<recording_state, current_recording, key_down, cycle,
                   rt_pc, rt_file, rt_pipe, ev, paused, rec_failed>>
    /\ UNCHANGED <<seg_vars, pipe_vars, rpc_vars, wk_vars, cmd_vars,
                   acc_vars, life_vars, reg_vars, clip_vars, db_vars,
                   det_vars, line_vars>>

LockNext ==
    \/ \E t \in Drivers : \E op \in OpsOf(t) :
            DriverBegin(t, op) /\ LocksLeaveAlone
    \/ \E t \in Drivers : DriverStep(t) /\ LocksLeaveAlone
    \/ \E p \in Pipelines : CaptureStep(p) /\ LocksLeaveAlone
    \/ \E p \in Pipelines : VadStep(p) /\ LocksLeaveAlone
    \/ \E p \in Pipelines : WorkerStep(p) /\ LocksLeaveAlone

\* ------------------------------------------------------------------------
\* The segmenter: pure functions of the VadStateMachine struct
\* ------------------------------------------------------------------------

NoSegment == [index |-> 0, frames |-> <<>>]

\* `x as u32` of a non-negative quotient a / b: truncation.
TruncDiv(a, b) == a \div b

\* The smallest integer >= a / b.
CeilDiv(a, b) == (a + b - 1) \div b


\* The frames numbered a, a+1, ..., b in capture order.
FrameRun(a, b) == [i \in 1..(b - a + 1) |-> a + i - 1]

Min(a, b) == IF a < b THEN a ELSE b

\* VadStateMachine::new(silence_sec, max_segment_sec); frames_per_sec is
\* VAD_SAMPLE_RATE / VAD_FRAME_SIZE = 31.25 and every product is cast to an
\* integer by truncation.
VadStateMachineNew(silence_ms, max_segment_sec) ==
    [ is_speaking        |-> FALSE,
      silence_count      |-> 0,
      silence_threshold  |-> TruncDiv(silence_ms * VAD_SAMPLE_RATE,
                                      1000 * VAD_FRAME_SIZE),
      max_frames         |-> TruncDiv(max_segment_sec * VAD_SAMPLE_RATE,
                                      VAD_FRAME_SIZE),
      speech_frames      |-> <<>>,
      pre_buffer         |-> <<>>,
      pre_buffer_max     |-> TruncDiv(PRE_BUFFER_MS * VAD_SAMPLE_RATE,
                                      1000 * VAD_FRAME_SIZE),
      speech_frame_count |-> 0,
      segment_counter    |-> 0 ]

\* A reset that leaves speech_frame_count as it is.
VsmResetKeepingCount(s) ==
    [s EXCEPT !.is_speaking = FALSE,
              !.silence_count = 0,
              !.speech_frames = <<>>]

\* VadStateMachine::reset: the pre-buffer and the segment counter are kept.
VsmReset(s) ==
    [s EXCEPT !.is_speaking = FALSE,
              !.silence_count = 0,
              !.speech_frames = <<>>,
              !.speech_frame_count = 0]

\* Number of samples of a list of frames.
TotalSamples(frames) == Len(frames) * VAD_FRAME_SIZE

\* duration < 0.5 where duration = total_samples / VAD_SAMPLE_RATE
TooShort(frames) == 2 * TotalSamples(frames) < VAD_SAMPLE_RATE

\* VadStateMachine::finalize_segment.  wav_ok: save_frames_to_wav succeeded.
\* Result: the new struct, the segment returned (NoSegment for None) and
\* whether a WAV file now exists for it.
FinalizeSegment(s, wav_ok) ==
    IF s.speech_frames = <<>> THEN
        [st |-> VsmReset(s), seg |-> NoSegment]
    ELSE IF TooShort(s.speech_frames) THEN
        [st |-> VsmReset(s), seg |-> NoSegment]
    ELSE
        LET counted == [s EXCEPT !.segment_counter = @ + 1]
        IN  IF wav_ok
            THEN [st  |-> VsmReset(counted),
                  seg |-> [index  |-> counted.segment_counter,
                           frames |-> s.speech_frames]]
            ELSE [st |-> VsmReset(counted), seg |-> NoSegment]

\* The pre-buffer after push_back(frame) and the pop_front that keeps it at
\* pre_buffer_max entries.
PreBufferPush(s, frame) ==
    LET pushed == Append(s.pre_buffer, frame)
    IN  IF Len(pushed) > s.pre_buffer_max THEN Tail(pushed) ELSE pushed

\* VadStateMachine::process(event, frame, tmp_dir).
Process(s, is_speech, frame, wav_ok) ==
    IF ~s.is_speaking THEN
        LET pre == PreBufferPush(s, frame)
        IN  IF is_speech
            THEN [st |-> [s EXCEPT !.is_speaking = TRUE,
                                   !.silence_count = 0,
                                   !.speech_frames = Append(pre, frame),
                                   !.pre_buffer = <<>>,
                                   !.speech_frame_count = 1],
                  seg |-> NoSegment]
            ELSE [st |-> [s EXCEPT !.pre_buffer = pre], seg |-> NoSegment]
    ELSE
        LET t == [s EXCEPT !.speech_frames = Append(@, frame),
                           !.speech_frame_count = @ + 1,
                           !.silence_count = IF is_speech THEN 0 ELSE @ + 1]
        IN  IF t.silence_count >= t.silence_threshold THEN
                FinalizeSegment(t, wav_ok)
            ELSE IF t.speech_frame_count >= t.max_frames THEN
                FinalizeSegment(t, wav_ok)
            ELSE [st |-> t, seg |-> NoSegment]

\* ------------------------------------------------------------------------
\* The segmenter driven by an arbitrary verdict sequence (SpecSeg)
\* ------------------------------------------------------------------------

\* No VadProcessor was made yet.
NoDetector == detector = "none"

\* VadProcessor::reset: a new detector takes the place of the old one if
\* the builder returns Ok; on Err the old one stays, with its LSTM state.
VadProcessorReset(d, ok) == IF ok THEN "fresh" ELSE d

NoVadExit ==
    [how |-> "none", stopping |-> FALSE, speaking |-> FALSE, samples |-> 0,
     wav_failed |-> FALSE, flushed |-> 0]

\* No pipeline was started.
NoPipeline ==
    /\ stop_flag = FALSE
    /\ sup_pc = "none"
    /\ stop_msg = FALSE
    /\ cap_pc = "none"
    /\ cb_pc = "idle"
    /\ output_buffer = 0
    /\ produced = 0
    /\ frame_q = <<>>
    /\ vad_pc = "none"
    /\ seg_q = <<>>
    /\ wk_pc = "none"
    /\ segment_count = 0
    /\ files = {}
    /\ vad_exit = NoVadExit

NoOnset == [frame |-> 0, idle_before |-> 0]

\* The last call returned None (or no call was made yet).
NoReturn ==
    [index |-> 0, frames |-> <<>>, cause |-> "none",
     silence_run |-> 0, speech_frames_seen |-> 0]

\* The segmenter after VadStateMachine::new, nothing observed yet.
SegStart ==
    /\ vsm = VadStateMachineNew(seg_cfg.silence_ms, seg_cfg.max_segment_sec)
    /\ nfed = 0
    /\ seg_done = FALSE
    /\ seg_ret = NoReturn
    /\ sil_run = 0
    /\ in_speech = 0
    /\ idle_run = 0
    /\ onset = NoOnset

\* What is written down about a call that returned a segment: the segment,
\* the path that returned it and what had been observed by then.
Returned(seg, cause, run, count) ==
    [index |-> seg.index, frames |-> seg.frames, cause |-> cause,
     silence_run |-> run, speech_frames_seen |-> count]

\* The observations, updated for one call of process.
Observe(was_speaking, r, is_speech, frame) ==
    /\ sil_run' = IF is_speech THEN 0 ELSE sil_run + 1
    /\ in_speech' = IF r.st.is_speaking
                    THEN (IF was_speaking THEN in_speech + 1 ELSE 1)
                    ELSE 0
    /\ idle_run' = IF was_speaking \/ r.st.is_speaking THEN 0 ELSE idle_run + 1
    /\ onset' = IF ~was_speaking /\ r.st.is_speaking
                THEN [frame |-> frame, idle_before |-> idle_run]
                ELSE IF r.st.is_speaking THEN onset ELSE NoOnset

\* One iteration of the VAD loop body: the next frame and its verdict go
\* through process.
SegProcess ==
    /\ ~seg_done
    /\ nfed < MaxFrames
    /\ \E is_speech \in BOOLEAN, wav_ok \in BOOLEAN :
        LET frame == nfed + 1
            r == Process(vsm, is_speech, frame, wav_ok)
            run == IF is_speech THEN 0 ELSE sil_run + 1
            cause == IF ~is_speech /\ vsm.silence_count + 1 >= vsm.silence_threshold
                     THEN "silence" ELSE "max"
        IN  /\ vsm' = r.st
            /\ nfed' = frame
            /\ seg_ret' = IF r.seg = NoSegment THEN NoReturn
                          ELSE Returned(r.seg, cause, run, in_speech + 1)
            /\ Observe(vsm.is_speaking, r, is_speech, frame)
    /\ UNCHANGED <<seg_cfg, seg_done>>
    /\ UNCHANGED pipe_vars
    /\ UNCHANGED hk_vars
    /\ UNCHANGED rpc_vars
    /\ UNCHANGED wk_vars
    /\ UNCHANGED cmd_vars
    /\ UNCHANGED acc_vars
    /\ UNCHANGED life_vars
    /\ UNCHANGED reg_vars
    /\ UNCHANGED clip_vars
    /\ UNCHANGED db_vars
    /\ UNCHANGED det_vars
    /\ UNCHANGED line_vars
    /\ UNCHANGED lock_vars

\* The stop branch of the VAD loop: finalize what is in progress, then leave.
SegFlush ==
    /\ ~seg_done
    /\ \E wav_ok \in BOOLEAN :
        LET r == IF vsm.is_speaking THEN FinalizeSegment(vsm, wav_ok)
                 ELSE [st |-> vsm, seg |-> NoSegment]
        IN  /\ vsm' = r.st
            /\ seg_ret' = IF r.seg = NoSegment THEN NoReturn
                          ELSE Returned(r.seg, "flush", sil_run, in_speech)
    /\ seg_done' = TRUE
    /\ UNCHANGED <<seg_cfg, nfed, sil_run, in_speech, idle_run, onset>>
    /\ UNCHANGED pipe_vars
    /\ UNCHANGED hk_vars
    /\ UNCHANGED rpc_vars
    /\ UNCHANGED wk_vars
    /\ UNCHANGED cmd_vars
    /\ UNCHANGED acc_vars
    /\ UNCHANGED life_vars
    /\ UNCHANGED reg_vars
    /\ UNCHANGED clip_vars
    /\ UNCHANGED db_vars
    /\ UNCHANGED det_vars
    /\ UNCHANGED line_vars
    /\ UNCHANGED lock_vars

SegNext == SegProcess \/ SegFlush

Cycles == 1..MaxCycles

\* AppState::default() and the statics at program start: no pipeline in
\* the slot, nothing recording, no key-down handled.
AppStateNew ==
    /\ continuous_pipeline = "none"
    /\ WAS_LISTENING = FALSE
    /\ recording_state = [is_recording |-> FALSE, current_file |-> FALSE]
    /\ current_recording = FALSE
    /\ key_down = FALSE
    /\ cycle = 0
    /\ rt_pc = [c \in Cycles |-> "none"]
    /\ rt_file = [c \in Cycles |-> FALSE]
    /\ rt_pipe = [c \in Cycles |-> "none"]
    /\ ev = [c \in Cycles |-> <<>>]
    /\ paused = [c \in Cycles |-> FALSE]
    /\ rec_failed = [c \in Cycles |-> FALSE]

\* The callers of the engine: the transcription worker, the hotkey release
\* thread and the commands of the UI.
Callers == {"worker", "release", "ui"}

NoCall ==
    [method |-> "none", id |-> 0, w |-> 0, r |-> 0, found |-> "none",
     result |-> "none", resp_id |-> 0, dead_handle |-> FALSE]

\* No request line was written to a sidecar yet.
NoRequestLine == last_written = <<>>

\* The id of the quit request of ASREngine::stop.
QuitId == 0

\* The last line written after ASREngine::stop: the quit line if there was
\* a handle and its child still read the pipe (`let _ =`: a failed write
\* is ignored).
AfterQuit(had_handle, c) ==
    IF had_handle /\ c = "alive" THEN <<QuitId>> ELSE last_written

\* ASREngine::new(): no process, request_id = 1; nobody holds the mutex.
ASREngineNew ==
    /\ process = FALSE
    /\ child = "none"
    /\ request_id = 1
    /\ engine_lock = "none"
    /\ rpc_pc = [c \in Callers |-> "idle"]
    /\ rpc_call = [c \in Callers |-> NoCall]
    /\ pipe_in = <<>>
    /\ pipe_out = <<>>
    /\ stray = 0

\* The worker has not taken a segment yet, and nothing it wrote is there.
WorkerNew ==
    /\ taken = <<>>
    /\ asr_log = <<>>
    /\ db_rows = <<>>
    /\ events = <<>>

\* The UI has called no command.
UiNew == cmd_ret = "none"

\* No stop has run.
NoStop == [by |-> "none", had_handle |-> FALSE, ops |-> <<>>]

\* No start is running and no stop has run.
NoSidecarYet ==
    /\ last_stop = NoStop
    /\ st_pc = "idle"
    /\ st_child = "none"
    /\ st_lines = <<>>
    /\ st_elapsed = FALSE

\* None, for current_hotkey of the manager thread.
NoHotkey == <<"None">>

\* register_hotkey was not called.
NoRegisterCall == [op |-> "none", hotkey |-> <<>>, ret |-> "none",
                   before |-> NoHotkey]

\* HandyKeysState::new: the manager thread starts without a hotkey.
HandyKeysNew ==
    /\ current_hotkey = NoHotkey
    /\ reg_ret = NoRegisterCall

\* A clipboard that holds a text.
ClipText(t) == [kind |-> "text", text |-> t]

\* paste_with_restore was not called.
NoPasteCall == [op |-> "none", text |-> "", before |-> ClipText(""),
                ret |-> "none", steps |-> <<>>, pasted |-> FALSE]

\* The clipboard when the application starts: empty.
ClipboardNew ==
    /\ clipboard = ClipText("")
    /\ received = ""
    /\ paste_ret = NoPasteCall

\* A u32 is written as its two halves of 16 bits, hi * 2^16 + lo.
U16 == 65536

U32(hi, lo) == [hi |-> hi, lo |-> lo]

\* u32::MAX
U32Max == U32(U16 - 1, U16 - 1)

\* a + b does not fit into a u32.
Overflows(a, b) == a.hi + b.hi + ((a.lo + b.lo) \div U16) >= U16

\* a + b in a u32, wrapping around at 2^32.
WrappingAdd(a, b) ==
    U32((a.hi + b.hi + ((a.lo + b.lo) \div U16)) % U16, (a.lo + b.lo) % U16)

\* a < n for a u32 a and a number n below 2^16.
U32Less(a, n) == a.hi = 0 /\ a.lo < n

\* A u32 as a number of rows: every value from 2^16 on is more rows than
\* a table holds here.
RowCount(a) == IF a.hi > 0 THEN U16 ELSE a.lo

\* No entry, no page and no paging, for an operation that has none.
NoEntry == [id |-> <<>>, created_at |-> <<>>, duration_seconds |-> <<>>,
            text |-> <<>>, language |-> <<>>]

NoPage == [entries |-> <<>>, total_count |-> 0, has_more |-> FALSE]

NoPaging == [limit |-> U32(0, 0), offset |-> U32(0, 0)]

\* TranscriptionDb::open on a path without a file: the schema is made,
\* the table and the index are empty.
DbOpen ==
    /\ transcriptions = {}
    /\ transcriptions_fts = {}
    /\ sqlite_sequence = 0
    /\ db_now = 0
    /\ db_log = <<>>
    /\ db_ret = [op |-> "none", id |-> 0, entry |-> NoEntry, query |-> <<>>,
                 path |-> "none", ok |-> TRUE, n |-> 0, page |-> NoPage,
                 paging |-> NoPaging]

\* The parts of the application outside the audio pipeline, as built.
DesktopNew ==
    /\ HandyKeysNew
    /\ ClipboardNew
    /\ DbOpen

\* FrameAccumulator::new for a device with ch channels: empty buffers.
FrameAccumulatorNew(ch) ==
    /\ native_channels = ch
    /\ acc_samples = <<>>
    /\ enqueued = <<>>
    /\ delivered = 0
    /\ frame_rx_alive = TRUE

SegInit ==
    /\ seg_cfg \in SegConfigs
    /\ SegStart
    /\ NoDetector
    /\ NoPipeline
    /\ AppStateNew
    /\ ASREngineNew
    /\ NoRequestLine
    /\ NoLockTaken
    /\ WorkerNew
    /\ UiNew
    /\ FrameAccumulatorNew(1)
    /\ NoSidecarYet
    /\ DesktopNew

SpecSeg == SegInit /\ [][SegNext]_vars

\* ------------------------------------------------------------------------
\* One continuous pipeline: streaming capture, VAD thread, transcription
\* worker and the caller of stop (SpecPipe)
\* ------------------------------------------------------------------------

\* continuous.rs, ContinuousPipeline::start: channel::bounded::<Vec<f32>>(256)
FRAME_QUEUE_CAP == 256

\* continuous.rs, ContinuousPipeline::start: channel::bounded::<SpeechSegment>(10)
SEGMENT_QUEUE_CAP == 10

\* audio_capture.rs: const STREAM_FRAME_SIZE
STREAM_FRAME_SIZE == 512

\* The (silence_sec, max_segment_sec) a pipeline is started with.
PipeConfigs == { [silence_ms |-> 100, max_segment_sec |-> 1] }

\* The numbers of mono 16 kHz samples one driver callback delivers.
ChunkSamples == {256, 1024}

\* The texts of a response: sequences of characters, " " being white space.
Texts == { <<>>, <<" ", " ">>, <<"a">>, <<" ", "a", " ">> }

\* What engine.transcribe returns to process_segment: Err, or Ok with a
\* TranscriptionResult (success is true in every Ok that transcribe
\* builds; no_speech is an Option<bool>).
TranscribeResults ==
    { [kind |-> "err", success |-> FALSE, text |-> <<>>, no_speech |-> "absent"] }
    \cup [kind : {"ok"}, success : {TRUE}, text : Texts,
          no_speech : {"absent", "true", "false"}]

RECURSIVE TrimStart(_)
\* str::trim, leading part: drop white space from the front.
TrimStart(t) ==
    IF t # <<>> /\ Head(t) = " " THEN TrimStart(Tail(t)) ELSE t

RECURSIVE TrimEnd(_)
\* str::trim, trailing part.
TrimEnd(t) ==
    IF t # <<>> /\ t[Len(t)] = " " THEN TrimEnd(SubSeq(t, 1, Len(t) - 1))
    ELSE t

\* str::trim
Trim(t) == TrimEnd(TrimStart(t))

\* process_segment, as a function of whether the engine mutex could be
\* locked, of what transcribe returned and of whether the insert worked:
\* was transcribe called, was a row inserted (and an event emitted, and
\* segment_count incremented), and with what text.
ProcessSegment(lock_ok, res, db_ok) ==
    IF ~lock_ok THEN [called |-> FALSE, inserted |-> FALSE, text |-> <<>>]
    ELSE IF res.kind = "err" \/ ~res.success \/ Trim(res.text) = <<>>
              \/ ~db_ok
    THEN [called |-> TRUE, inserted |-> FALSE, text |-> <<>>]
    ELSE [called |-> TRUE, inserted |-> TRUE, text |-> Trim(res.text)]

\* The channel ends.  frame_sender lives in the streaming thread (inside the
\* FrameAccumulator), frame_rx and segment_tx in the VAD thread, segment_rx
\* in the worker; each is dropped when its thread returns.
FrameSenderAlive == cap_pc # "done"
FrameReceiverAlive == vad_pc # "done"
SegmentSenderAlive == vad_pc # "done"
SegmentReceiverAlive == wk_pc # "done"

\* The state ContinuousPipeline::start returns Ok in: the three threads are
\* spawned, nothing has run yet.
PipeStarted ==
    /\ stop_flag = FALSE
    /\ sup_pc = "running"
    /\ stop_msg = FALSE
    /\ cap_pc = "spawned"
    /\ cb_pc = "idle"
    /\ output_buffer = 0
    /\ produced = 0
    /\ frame_q = <<>>
    /\ vad_pc = "init"
    /\ seg_q = <<>>
    /\ wk_pc = "recv"
    /\ segment_count = 0
    /\ files = {}
    /\ vad_exit = NoVadExit

\* --- streaming thread (audio_capture.rs, streaming_thread) ---

\* Device lookup, find_best_input_config, build_input_stream, play: on any
\* error the thread returns (and logs); otherwise it waits on stop_rx.
StreamingOpen ==
    /\ cap_pc = "spawned"
    /\ \E ok \in BOOLEAN : cap_pc' = IF ok THEN "playing" ELSE "done"
    /\ UNCHANGED <<stop_flag, sup_pc, stop_msg, cb_pc, output_buffer, produced,
                   frame_q, vad_pc, seg_q, wk_pc, segment_count, files,
                   vad_exit>>
    /\ UNCHANGED seg_vars
    /\ UNCHANGED hk_vars
    /\ UNCHANGED rpc_vars
    /\ UNCHANGED wk_vars
    /\ UNCHANGED cmd_vars
    /\ UNCHANGED acc_vars
    /\ UNCHANGED life_vars
    /\ UNCHANGED reg_vars
    /\ UNCHANGED clip_vars
    /\ UNCHANGED db_vars
    /\ UNCHANGED det_vars
    /\ UNCHANGED line_vars
    /\ UNCHANGED lock_vars

\* stop_rx.recv() returns; drop(stream) ends the callbacks; the thread
\* returns and the accumulator (with frame_sender) is dropped.
StreamingStop ==
    /\ cap_pc = "playing"
    /\ stop_msg
    /\ cb_pc = "idle"
    /\ cap_pc' = "done"
    /\ UNCHANGED <<stop_flag, sup_pc, stop_msg, cb_pc, output_buffer, produced,
                   frame_q, vad_pc, seg_q, wk_pc, segment_count, files,
                   vad_exit>>
    /\ UNCHANGED seg_vars
    /\ UNCHANGED hk_vars
    /\ UNCHANGED rpc_vars
    /\ UNCHANGED wk_vars
    /\ UNCHANGED cmd_vars
    /\ UNCHANGED acc_vars
    /\ UNCHANGED life_vars
    /\ UNCHANGED reg_vars
    /\ UNCHANGED clip_vars
    /\ UNCHANGED db_vars
    /\ UNCHANGED det_vars
    /\ UNCHANGED line_vars
    /\ UNCHANGED lock_vars

\* --- driver callback (audio_capture.rs, FrameAccumulator::push_samples) ---

\* The callback is inside frame_sender.send(frame) on a full channel:
\* crossbeam's send on a bounded channel waits for room.
CallbackBlocked ==
    /\ cb_pc = "emit"
    /\ FrameReceiverAlive
    /\ Len(frame_q) >= FRAME_QUEUE_CAP

\* The native-rate path: the mono samples are appended to output_buffer;
\* the emit loop runs while it holds a whole frame.  The callback delivers
\* one of `chunks` samples; at most `limit` frames are produced.
AudioCallback(chunks, limit) ==
    /\ cap_pc = "playing"
    /\ cb_pc = "idle"
    /\ \E n \in chunks :
        /\ produced + ((output_buffer + n) \div STREAM_FRAME_SIZE) <= limit
        /\ output_buffer' = output_buffer + n
        /\ cb_pc' = IF output_buffer + n >= STREAM_FRAME_SIZE
                    THEN "emit" ELSE "idle"
    /\ UNCHANGED <<stop_flag, sup_pc, stop_msg, cap_pc, produced, frame_q,
                   vad_pc, seg_q, wk_pc, segment_count, files, vad_exit>>
    /\ UNCHANGED seg_vars
    /\ UNCHANGED hk_vars
    /\ UNCHANGED rpc_vars
    /\ UNCHANGED wk_vars
    /\ UNCHANGED cmd_vars
    /\ UNCHANGED acc_vars
    /\ UNCHANGED life_vars
    /\ UNCHANGED reg_vars
    /\ UNCHANGED clip_vars
    /\ UNCHANGED db_vars
    /\ UNCHANGED det_vars
    /\ UNCHANGED line_vars
    /\ UNCHANGED lock_vars

\* A frame channel that hands out the newest frame first.
CallbackEmitUnordered ==
    /\ cb_pc = "emit"
    /\ ~CallbackBlocked
    /\ output_buffer' = output_buffer - STREAM_FRAME_SIZE
    /\ produced' = produced + 1
    /\ IF FrameReceiverAlive
       THEN /\ frame_q' = <<produced + 1>> \o frame_q
            /\ cb_pc' = IF output_buffer' >= STREAM_FRAME_SIZE
                        THEN "emit" ELSE "idle"
       ELSE /\ frame_q' = frame_q
            /\ cb_pc' = "idle"
    /\ UNCHANGED <<stop_flag, sup_pc, stop_msg, cap_pc, vad_pc, seg_q, wk_pc,
                   segment_count, files, vad_exit>>
    /\ UNCHANGED seg_vars
    /\ UNCHANGED hk_vars
    /\ UNCHANGED rpc_vars
    /\ UNCHANGED wk_vars
    /\ UNCHANGED cmd_vars
    /\ UNCHANGED acc_vars
    /\ UNCHANGED life_vars
    /\ UNCHANGED reg_vars
    /\ UNCHANGED clip_vars
    /\ UNCHANGED db_vars
    /\ UNCHANGED det_vars
    /\ UNCHANGED line_vars
    /\ UNCHANGED lock_vars

\* One turn of the emit loop: drain STREAM_FRAME_SIZE samples into a frame
\* and send it.  send waits while the channel is full; if the receiver is
\* gone it fails and push_samples returns.
CallbackEmit ==
    /\ cb_pc = "emit"
    /\ ~CallbackBlocked
    /\ output_buffer' = output_buffer - STREAM_FRAME_SIZE
    /\ produced' = produced + 1
    /\ IF FrameReceiverAlive
       THEN /\ frame_q' = Append(frame_q, produced + 1)
            /\ cb_pc' = IF output_buffer' >= STREAM_FRAME_SIZE
                        THEN "emit" ELSE "idle"
       ELSE /\ frame_q' = frame_q
            /\ cb_pc' = "idle"
    /\ UNCHANGED <<stop_flag, sup_pc, stop_msg, cap_pc, vad_pc, seg_q, wk_pc,
                   segment_count, files, vad_exit>>
    /\ UNCHANGED seg_vars
    /\ UNCHANGED hk_vars
    /\ UNCHANGED rpc_vars
    /\ UNCHANGED wk_vars
    /\ UNCHANGED cmd_vars
    /\ UNCHANGED acc_vars
    /\ UNCHANGED life_vars
    /\ UNCHANGED reg_vars
    /\ UNCHANGED clip_vars
    /\ UNCHANGED db_vars
    /\ UNCHANGED det_vars
    /\ UNCHANGED line_vars
    /\ UNCHANGED lock_vars

\* --- VAD thread (continuous.rs, vad_thread) ---

\* What is written down when the VAD thread returns: the way out, the stop
\* flag and the segmenter as they were, whether save_frames_to_wav failed in
\* the flush and how many segments the flush put into the segment channel.
VadExit(how, wav_failed, flushed) ==
    [how |-> how, stopping |-> stop_flag, speaking |-> vsm.is_speaking,
     samples |-> TotalSamples(vsm.speech_frames), wav_failed |-> wav_failed,
     flushed |-> flushed]

\* VadProcessor::new(0.5)?: on failure the thread returns at once.
VadInit ==
    /\ vad_pc = "init"
    /\ \E ok \in BOOLEAN :
        IF ok THEN /\ vad_pc' = "top"
                   /\ vad_exit' = vad_exit
                   /\ detector' = "fresh"
        ELSE /\ vad_pc' = "done"
             /\ vad_exit' = VadExit("init_failed", FALSE, 0)
             /\ detector' = detector
    /\ UNCHANGED <<stop_flag, sup_pc, stop_msg, cap_pc, cb_pc, output_buffer,
                   produced, frame_q, seg_q, wk_pc, segment_count, files>>
    /\ UNCHANGED seg_vars
    /\ UNCHANGED hk_vars
    /\ UNCHANGED rpc_vars
    /\ UNCHANGED wk_vars
    /\ UNCHANGED cmd_vars
    /\ UNCHANGED acc_vars
    /\ UNCHANGED life_vars
    /\ UNCHANGED reg_vars
    /\ UNCHANGED clip_vars
    /\ UNCHANGED db_vars
    /\ UNCHANGED line_vars
    /\ UNCHANGED lock_vars

\* The top of the loop: with the stop flag set, finalize a segment in
\* progress, send it (`let _ =`: a failed send is ignored) and leave.
VadLoopTop ==
    /\ vad_pc = "top"
    /\ IF ~stop_flag THEN
           /\ vad_pc' = "recv"
           /\ UNCHANGED <<vsm, seg_q, files, vad_exit, detector>>
       ELSE \E wav_ok \in BOOLEAN,
               reset_ok \in IF vsm.is_speaking THEN BOOLEAN ELSE {TRUE} :
           LET r == IF vsm.is_speaking THEN FinalizeSegment(vsm, wav_ok)
                    ELSE [st |-> vsm, seg |-> NoSegment]
               has == r.seg # NoSegment
               accepted == has /\ SegmentReceiverAlive
           IN  /\ accepted => Len(seg_q) < SEGMENT_QUEUE_CAP
               /\ vsm' = r.st
               /\ files' = IF has THEN files \cup {r.seg.index} ELSE files
               /\ seg_q' = IF accepted THEN Append(seg_q, r.seg) ELSE seg_q
               /\ detector' = IF vsm.is_speaking
                              THEN VadProcessorReset(detector, reset_ok)
                              ELSE detector
               /\ vad_pc' = "done"
               /\ vad_exit' = VadExit("stop",
                                       vsm.is_speaking /\ ~wav_ok
                                           /\ ~TooShort(vsm.speech_frames),
                                       IF accepted THEN 1 ELSE 0)
    /\ UNCHANGED <<stop_flag, sup_pc, stop_msg, cap_pc, cb_pc, output_buffer,
                   produced, frame_q, wk_pc, segment_count>>
    /\ UNCHANGED <<seg_cfg, nfed>>
    /\ UNCHANGED seg_obs
    /\ UNCHANGED hk_vars
    /\ UNCHANGED rpc_vars
    /\ UNCHANGED wk_vars
    /\ UNCHANGED cmd_vars
    /\ UNCHANGED acc_vars
    /\ UNCHANGED life_vars
    /\ UNCHANGED reg_vars
    /\ UNCHANGED clip_vars
    /\ UNCHANGED db_vars
    /\ UNCHANGED line_vars
    /\ UNCHANGED lock_vars

\* recv_timeout returns a frame: classify it (the verdict is one of
\* `verdicts`), run process, and send a completed segment; send waits for
\* room, and if the worker is gone the loop breaks.
VadRecvFrame(verdicts) ==
    /\ vad_pc = "recv"
    /\ frame_q # <<>>
    /\ \E is_speech \in verdicts, wav_ok \in BOOLEAN, reset_ok \in BOOLEAN :
        LET r == Process(vsm, is_speech, Head(frame_q), wav_ok)
            has == r.seg # NoSegment
            accepted == has /\ SegmentReceiverAlive
        IN  /\ accepted => Len(seg_q) < SEGMENT_QUEUE_CAP
            /\ vsm' = r.st
            /\ files' = IF has THEN files \cup {r.seg.index} ELSE files
            /\ seg_q' = IF accepted THEN Append(seg_q, r.seg) ELSE seg_q
            /\ has \/ reset_ok      \* reset is called for a segment only
            /\ detector' = IF has THEN VadProcessorReset("used", reset_ok)
                           ELSE "used"
            /\ vad_pc' = IF has /\ ~accepted THEN "done" ELSE "top"
            /\ vad_exit' = IF has /\ ~accepted
                           THEN [VadExit("send_failed", FALSE, 0) EXCEPT
                                    !.speaking = FALSE, !.samples = 0]
                           ELSE vad_exit
    /\ frame_q' = Tail(frame_q)
    /\ nfed' = nfed + 1
    /\ UNCHANGED <<stop_flag, sup_pc, stop_msg, cap_pc, cb_pc, output_buffer,
                   produced, wk_pc, segment_count>>
    /\ UNCHANGED seg_cfg
    /\ UNCHANGED seg_obs
    /\ UNCHANGED hk_vars
    /\ UNCHANGED rpc_vars
    /\ UNCHANGED wk_vars
    /\ UNCHANGED cmd_vars
    /\ UNCHANGED acc_vars
    /\ UNCHANGED life_vars
    /\ UNCHANGED reg_vars
    /\ UNCHANGED clip_vars
    /\ UNCHANGED db_vars
    /\ UNCHANGED line_vars
    /\ UNCHANGED lock_vars

\* recv_timeout(100 ms) ends with Timeout: no frame came while a sender
\* was alive.
VadRecvTimeout ==
    /\ vad_pc = "recv"
    /\ frame_q = <<>>
    /\ FrameSenderAlive
    /\ vad_pc' = "top"
    /\ UNCHANGED <<stop_flag, sup_pc, stop_msg, cap_pc, cb_pc, output_buffer,
                   produced, frame_q, seg_q, wk_pc, segment_count, files,
                   vad_exit>>
    /\ UNCHANGED seg_vars
    /\ UNCHANGED hk_vars
    /\ UNCHANGED rpc_vars
    /\ UNCHANGED wk_vars
    /\ UNCHANGED cmd_vars
    /\ UNCHANGED acc_vars
    /\ UNCHANGED life_vars
    /\ UNCHANGED reg_vars
    /\ UNCHANGED clip_vars
    /\ UNCHANGED db_vars
    /\ UNCHANGED det_vars
    /\ UNCHANGED line_vars
    /\ UNCHANGED lock_vars

\* recv_timeout ends with Disconnected (the channel is empty and the
\* streaming thread has returned): the loop breaks, nothing is finalized.
VadRecvDisconnected ==
    /\ vad_pc = "recv"
    /\ frame_q = <<>>
    /\ ~FrameSenderAlive
    /\ vad_pc' = "done"
    /\ vad_exit' = VadExit("disconnected", FALSE, 0)
    /\ UNCHANGED <<stop_flag, sup_pc, stop_msg, cap_pc, cb_pc, output_buffer,
                   produced, frame_q, seg_q, wk_pc, segment_count, files>>
    /\ UNCHANGED seg_vars
    /\ UNCHANGED hk_vars
    /\ UNCHANGED rpc_vars
    /\ UNCHANGED wk_vars
    /\ UNCHANGED cmd_vars
    /\ UNCHANGED acc_vars
    /\ UNCHANGED life_vars
    /\ UNCHANGED reg_vars
    /\ UNCHANGED clip_vars
    /\ UNCHANGED db_vars
    /\ UNCHANGED det_vars
    /\ UNCHANGED line_vars
    /\ UNCHANGED lock_vars

\* --- transcription worker (continuous.rs, transcription_worker) ---

\* A worker that removes the file only of a segment it has persisted.
WorkerRecvSegmentKeepFile(results) ==
    /\ wk_pc = "recv"
    /\ seg_q # <<>>
    /\ \E lock_ok \in BOOLEAN, res \in results, db_ok \in BOOLEAN,
          emit_ok \in BOOLEAN :
        LET seg == Head(seg_q)
            p == ProcessSegment(lock_ok, res, db_ok)
            id == Len(db_rows) + 1
        IN  /\ asr_log' = IF p.called THEN Append(asr_log, seg.index)
                          ELSE asr_log
            /\ db_rows' = IF p.inserted
                          THEN Append(db_rows, [id |-> id, seg |-> seg.index,
                                                text |-> p.text, resp |-> res])
                          ELSE db_rows
            /\ events' = IF p.inserted /\ emit_ok
                         THEN Append(events, [id |-> id, seg |-> seg.index,
                                              text |-> p.text])
                         ELSE events
            /\ segment_count' = IF p.inserted THEN segment_count + 1
                                ELSE segment_count
            /\ taken' = Append(taken, seg.index)
            /\ files' = IF p.inserted THEN files \ {seg.index} ELSE files
    /\ seg_q' = Tail(seg_q)
    /\ UNCHANGED <<stop_flag, sup_pc, stop_msg, cap_pc, cb_pc, output_buffer,
                   produced, frame_q, vad_pc, wk_pc, vad_exit>>
    /\ UNCHANGED seg_vars
    /\ UNCHANGED hk_vars
    /\ UNCHANGED rpc_vars
    /\ UNCHANGED cmd_vars
    /\ UNCHANGED acc_vars
    /\ UNCHANGED life_vars
    /\ UNCHANGED reg_vars
    /\ UNCHANGED clip_vars
    /\ UNCHANGED db_vars
    /\ UNCHANGED det_vars
    /\ UNCHANGED line_vars
    /\ UNCHANGED lock_vars

\* recv_timeout returns a segment: process_segment (transcribe returns one
\* of `results`, the insert and the emit work or fail), then remove_file
\* (a failure of which is ignored), then the next turn of the loop.
\* The id of a row is last_insert_rowid() of an AUTOINCREMENT table that
\* nobody else writes to.
WorkerRecvSegment(results) ==
    /\ wk_pc = "recv"
    /\ seg_q # <<>>
    /\ \E lock_ok \in BOOLEAN, res \in results, db_ok \in BOOLEAN,
          emit_ok \in BOOLEAN :
        LET seg == Head(seg_q)
            p == ProcessSegment(lock_ok, res, db_ok)
            id == Len(db_rows) + 1
        IN  /\ asr_log' = IF p.called THEN Append(asr_log, seg.index)
                          ELSE asr_log
            /\ db_rows' = IF p.inserted
                          THEN Append(db_rows, [id |-> id, seg |-> seg.index,
                                                text |-> p.text, resp |-> res])
                          ELSE db_rows
            /\ events' = IF p.inserted /\ emit_ok
                         THEN Append(events, [id |-> id, seg |-> seg.index,
                                              text |-> p.text])
                         ELSE events
            /\ segment_count' = IF p.inserted THEN segment_count + 1
                                ELSE segment_count
            /\ taken' = Append(taken, seg.index)
            /\ files' = files \ {seg.index}
    /\ seg_q' = Tail(seg_q)
    /\ UNCHANGED <<stop_flag, sup_pc, stop_msg, cap_pc, cb_pc, output_buffer,
                   produced, frame_q, vad_pc, wk_pc, vad_exit>>
    /\ UNCHANGED seg_vars
    /\ UNCHANGED hk_vars
    /\ UNCHANGED rpc_vars
    /\ UNCHANGED cmd_vars
    /\ UNCHANGED acc_vars
    /\ UNCHANGED life_vars
    /\ UNCHANGED reg_vars
    /\ UNCHANGED clip_vars
    /\ UNCHANGED db_vars
    /\ UNCHANGED det_vars
    /\ UNCHANGED line_vars
    /\ UNCHANGED lock_vars

\* recv_timeout(500 ms) ends with Timeout.
WorkerRecvTimeout ==
    /\ wk_pc = "recv"
    /\ seg_q = <<>>
    /\ SegmentSenderAlive
    /\ wk_pc' = "check"
    /\ UNCHANGED <<stop_flag, sup_pc, stop_msg, cap_pc, cb_pc, output_buffer,
                   produced, frame_q, vad_pc, seg_q, segment_count, files,
                   vad_exit>>
    /\ UNCHANGED seg_vars
    /\ UNCHANGED hk_vars
    /\ UNCHANGED rpc_vars
    /\ UNCHANGED wk_vars
    /\ UNCHANGED cmd_vars
    /\ UNCHANGED acc_vars
    /\ UNCHANGED life_vars
    /\ UNCHANGED reg_vars
    /\ UNCHANGED clip_vars
    /\ UNCHANGED db_vars
    /\ UNCHANGED det_vars
    /\ UNCHANGED line_vars
    /\ UNCHANGED lock_vars

\* After a Timeout: break if stop_flag is set and the channel is empty.
WorkerCheckStop ==
    /\ wk_pc = "check"
    /\ wk_pc' = IF stop_flag /\ seg_q = <<>> THEN "done" ELSE "recv"
    /\ UNCHANGED <<stop_flag, sup_pc, stop_msg, cap_pc, cb_pc, output_buffer,
                   produced, frame_q, vad_pc, seg_q, segment_count, files,
                   vad_exit>>
    /\ UNCHANGED seg_vars
    /\ UNCHANGED hk_vars
    /\ UNCHANGED rpc_vars
    /\ UNCHANGED wk_vars
    /\ UNCHANGED cmd_vars
    /\ UNCHANGED acc_vars
    /\ UNCHANGED life_vars
    /\ UNCHANGED reg_vars
    /\ UNCHANGED clip_vars
    /\ UNCHANGED db_vars
    /\ UNCHANGED det_vars
    /\ UNCHANGED line_vars
    /\ UNCHANGED lock_vars

\* recv_timeout ends with Disconnected: the channel is empty and the VAD
\* thread has returned.
WorkerRecvDisconnected ==
    /\ wk_pc = "recv"
    /\ seg_q = <<>>
    /\ ~SegmentSenderAlive
    /\ wk_pc' = "done"
    /\ UNCHANGED <<stop_flag, sup_pc, stop_msg, cap_pc, cb_pc, output_buffer,
                   produced, frame_q, vad_pc, seg_q, segment_count, files,
                   vad_exit>>
    /\ UNCHANGED seg_vars
    /\ UNCHANGED hk_vars
    /\ UNCHANGED rpc_vars
    /\ UNCHANGED wk_vars
    /\ UNCHANGED cmd_vars
    /\ UNCHANGED acc_vars
    /\ UNCHANGED life_vars
    /\ UNCHANGED reg_vars
    /\ UNCHANGED clip_vars
    /\ UNCHANGED db_vars
    /\ UNCHANGED det_vars
    /\ UNCHANGED line_vars
    /\ UNCHANGED lock_vars

\* --- ContinuousPipeline::stop, statement by statement ---

\* self.stop_flag.store(true)
PipeStopFlag ==
    /\ sup_pc = "running"
    /\ stop_flag' = TRUE
    /\ sup_pc' = "stop_capture"
    /\ UNCHANGED <<stop_msg, cap_pc, cb_pc, output_buffer, produced, frame_q,
                   vad_pc, seg_q, wk_pc, segment_count, files, vad_exit>>
    /\ UNCHANGED seg_vars
    /\ UNCHANGED hk_vars
    /\ UNCHANGED rpc_vars
    /\ UNCHANGED wk_vars
    /\ UNCHANGED cmd_vars
    /\ UNCHANGED acc_vars
    /\ UNCHANGED life_vars
    /\ UNCHANGED reg_vars
    /\ UNCHANGED clip_vars
    /\ UNCHANGED db_vars
    /\ UNCHANGED det_vars
    /\ UNCHANGED line_vars
    /\ UNCHANGED lock_vars

\* StreamingCapture::stop: stop_tx.send(())
PipeStopCapture ==
    /\ sup_pc = "stop_capture"
    /\ stop_msg' = TRUE
    /\ sup_pc' = "join_capture"
    /\ UNCHANGED <<stop_flag, cap_pc, cb_pc, output_buffer, produced, frame_q,
                   vad_pc, seg_q, wk_pc, segment_count, files, vad_exit>>
    /\ UNCHANGED seg_vars
    /\ UNCHANGED hk_vars
    /\ UNCHANGED rpc_vars
    /\ UNCHANGED wk_vars
    /\ UNCHANGED cmd_vars
    /\ UNCHANGED acc_vars
    /\ UNCHANGED life_vars
    /\ UNCHANGED reg_vars
    /\ UNCHANGED clip_vars
    /\ UNCHANGED db_vars
    /\ UNCHANGED det_vars
    /\ UNCHANGED line_vars
    /\ UNCHANGED lock_vars

\* StreamingCapture::stop: handle.join() returns when the thread has.
PipeJoinCapture ==
    /\ sup_pc = "join_capture"
    /\ cap_pc = "done"
    /\ sup_pc' = "join_vad"
    /\ UNCHANGED <<stop_flag, stop_msg, cap_pc, cb_pc, output_buffer, produced,
                   frame_q, vad_pc, seg_q, wk_pc, segment_count, files,
                   vad_exit>>
    /\ UNCHANGED seg_vars
    /\ UNCHANGED hk_vars
    /\ UNCHANGED rpc_vars
    /\ UNCHANGED wk_vars
    /\ UNCHANGED cmd_vars
    /\ UNCHANGED acc_vars
    /\ UNCHANGED life_vars
    /\ UNCHANGED reg_vars
    /\ UNCHANGED clip_vars
    /\ UNCHANGED db_vars
    /\ UNCHANGED det_vars
    /\ UNCHANGED line_vars
    /\ UNCHANGED lock_vars

\* vad_handle.join()
PipeJoinVad ==
    /\ sup_pc = "join_vad"
    /\ vad_pc = "done"
    /\ sup_pc' = "join_worker"
    /\ UNCHANGED <<stop_flag, stop_msg, cap_pc, cb_pc, output_buffer, produced,
                   frame_q, vad_pc, seg_q, wk_pc, segment_count, files,
                   vad_exit>>
    /\ UNCHANGED seg_vars
    /\ UNCHANGED hk_vars
    /\ UNCHANGED rpc_vars
    /\ UNCHANGED wk_vars
    /\ UNCHANGED cmd_vars
    /\ UNCHANGED acc_vars
    /\ UNCHANGED life_vars
    /\ UNCHANGED reg_vars
    /\ UNCHANGED clip_vars
    /\ UNCHANGED db_vars
    /\ UNCHANGED det_vars
    /\ UNCHANGED line_vars
    /\ UNCHANGED lock_vars

\* A stop that does not wait for the worker.
PipeJoinWorkerNoWait ==
    /\ sup_pc = "join_worker"
    /\ sup_pc' = "stopped"
    /\ UNCHANGED <<stop_flag, stop_msg, cap_pc, cb_pc, output_buffer, produced,
                   frame_q, vad_pc, seg_q, wk_pc, segment_count, files,
                   vad_exit>>
    /\ UNCHANGED seg_vars
    /\ UNCHANGED hk_vars
    /\ UNCHANGED rpc_vars
    /\ UNCHANGED wk_vars
    /\ UNCHANGED cmd_vars
    /\ UNCHANGED acc_vars
    /\ UNCHANGED life_vars
    /\ UNCHANGED reg_vars
    /\ UNCHANGED clip_vars
    /\ UNCHANGED db_vars
    /\ UNCHANGED det_vars
    /\ UNCHANGED line_vars
    /\ UNCHANGED lock_vars

\* worker_handle.join(), then the count is loaded and returned.
PipeJoinWorker ==
    /\ sup_pc = "join_worker"
    /\ wk_pc = "done"
    /\ sup_pc' = "stopped"
    /\ UNCHANGED <<stop_flag, stop_msg, cap_pc, cb_pc, output_buffer, produced,
                   frame_q, vad_pc, seg_q, wk_pc, segment_count, files,
                   vad_exit>>
    /\ UNCHANGED seg_vars
    /\ UNCHANGED hk_vars
    /\ UNCHANGED rpc_vars
    /\ UNCHANGED wk_vars
    /\ UNCHANGED cmd_vars
    /\ UNCHANGED acc_vars
    /\ UNCHANGED life_vars
    /\ UNCHANGED reg_vars
    /\ UNCHANGED clip_vars
    /\ UNCHANGED db_vars
    /\ UNCHANGED det_vars
    /\ UNCHANGED line_vars
    /\ UNCHANGED lock_vars

PipeNext ==
    \/ StreamingOpen
    \/ StreamingStop
    \/ AudioCallback(ChunkSamples, MaxProduced)
    \/ CallbackEmit
    \/ VadInit
    \/ VadLoopTop
    \/ VadRecvFrame(BOOLEAN)
    \/ VadRecvTimeout
    \/ VadRecvDisconnected
    \/ WorkerRecvSegment(TranscribeResults)
    \/ WorkerRecvTimeout
    \/ WorkerCheckStop
    \/ WorkerRecvDisconnected
    \/ PipeStopFlag
    \/ PipeStopCapture
    \/ PipeJoinCapture
    \/ PipeJoinVad
    \/ PipeJoinWorker

PipeInit ==
    /\ seg_cfg \in PipeConfigs
    /\ SegStart
    /\ NoDetector
    /\ PipeStarted
    /\ AppStateNew
    /\ ASREngineNew
    /\ NoRequestLine
    /\ NoLockTaken
    /\ WorkerNew
    /\ UiNew
    /\ FrameAccumulatorNew(1)
    /\ NoSidecarYet
    /\ DesktopNew

SpecPipe == PipeInit /\ [][PipeNext]_vars

\* The capture side alone, with a driver that delivers whole frames and a
\* VAD thread that hears only silence: the producer may run ahead of the
\* consumer by the whole frame channel.
CaptureNext ==
    \/ StreamingOpen
    \/ AudioCallback({STREAM_FRAME_SIZE}, MaxCaptured)
    \/ CallbackEmit
    \/ VadInit
    \/ VadLoopTop
    \/ VadRecvFrame({FALSE})
    \/ VadRecvTimeout

SpecCapture == PipeInit /\ [][CaptureNext]_vars

\* ------------------------------------------------------------------------
\* One FrameAccumulator with the samples themselves (SpecAccum), for a
\* device that runs at 16 kHz, so that no resampler is in the way.  The
\* driver samples are numbered: frame k of the input has the sample 4k + 1
\* on a mono device and the samples 4k (left) and 4k + 2 (right) on a
\* stereo device, whose mean is 4k + 1.
\* ------------------------------------------------------------------------

\* The channel counts of the input device.
NativeChannels == {1, 2}

\* The numbers of input frames one driver callback delivers.
CallbackFrames == {160, 512, 1100}

\* The interleaved data of the callback that delivers n frames after the
\* first `from`.
DriverData(from, n, ch) ==
    IF ch = 1 THEN [i \in 1..n |-> 4 * (from + i) + 1]
    ELSE [i \in 1..(2 * n) |->
            IF i % 2 = 1 THEN 4 * (from + (i + 1) \div 2)
            ELSE 4 * (from + i \div 2) + 2]

RECURSIVE SumSeq(_)
\* frame.iter().sum()
SumSeq(t) == IF t = <<>> THEN 0 ELSE Head(t) + SumSeq(Tail(t))

\* push_samples, "Convert to mono first": the data itself for one channel,
\* else the mean of every chunk of native_channels samples (the last chunk
\* may be shorter, and is still divided by native_channels).
Mono(data, ch) ==
    IF ch = 1 THEN data
    ELSE [j \in 1..CeilDiv(Len(data), ch) |->
            SumSeq(SubSeq(data, (j - 1) * ch + 1, Min(j * ch, Len(data))))
                \div ch]

RECURSIVE EmitFrames(_, _, _)
\* push_samples, "Emit complete 512-sample frames": while the buffer has
\* STREAM_FRAME_SIZE samples, drain a frame and send it; when send fails
\* (the receiver is gone) return, the drained frame being dropped.
EmitFrames(buf, sent, alive) ==
    IF Len(buf) < STREAM_FRAME_SIZE THEN [output_buffer |-> buf, sent |-> sent]
    ELSE LET frame == SubSeq(buf, 1, STREAM_FRAME_SIZE)
             rest == SubSeq(buf, STREAM_FRAME_SIZE + 1, Len(buf))
         IN  IF alive THEN EmitFrames(rest, Append(sent, frame), alive)
             ELSE [output_buffer |-> rest, sent |-> sent]

\* FrameAccumulator::push_samples with native_rate = VAD_SAMPLE_RATE.
PushSamples(buf, sent, data, ch, alive) ==
    EmitFrames(buf \o Mono(data, ch), sent, alive)

\* One driver callback: push_samples on the next n frames of the input.
DriverCallback ==
    /\ \E n \in CallbackFrames :
        /\ delivered + n <= MaxDelivered
        /\ LET r == PushSamples(acc_samples, enqueued,
                                DriverData(delivered, n, native_channels),
                                native_channels, frame_rx_alive)
           IN  /\ acc_samples' = r.output_buffer
               /\ enqueued' = r.sent
        /\ delivered' = delivered + n
    /\ UNCHANGED <<native_channels, frame_rx_alive>>
    /\ UNCHANGED <<seg_vars, pipe_vars, hk_vars>>
    /\ UNCHANGED rpc_vars
    /\ UNCHANGED wk_vars
    /\ UNCHANGED cmd_vars
    /\ UNCHANGED life_vars
    /\ UNCHANGED reg_vars
    /\ UNCHANGED clip_vars
    /\ UNCHANGED db_vars
    /\ UNCHANGED det_vars
    /\ UNCHANGED line_vars
    /\ UNCHANGED lock_vars

\* The VAD thread returns and frame_rx is dropped.
FrameReceiverDropped ==
    /\ frame_rx_alive
    /\ frame_rx_alive' = FALSE
    /\ UNCHANGED <<native_channels, acc_samples, enqueued, delivered>>
    /\ UNCHANGED <<seg_vars, pipe_vars, hk_vars>>
    /\ UNCHANGED rpc_vars
    /\ UNCHANGED wk_vars
    /\ UNCHANGED cmd_vars
    /\ UNCHANGED life_vars
    /\ UNCHANGED reg_vars
    /\ UNCHANGED clip_vars
    /\ UNCHANGED db_vars
    /\ UNCHANGED det_vars
    /\ UNCHANGED line_vars
    /\ UNCHANGED lock_vars

AccumNext ==
    \/ DriverCallback
    \/ FrameReceiverDropped

AccumInit ==
    /\ seg_cfg \in PipeConfigs
    /\ SegStart
    /\ NoDetector
    /\ NoPipeline
    /\ AppStateNew
    /\ ASREngineNew
    /\ NoRequestLine
    /\ NoLockTaken
    /\ WorkerNew
    /\ cmd_ret = "none"
    /\ \E ch \in NativeChannels : FrameAccumulatorNew(ch)
    /\ NoSidecarYet
    /\ DesktopNew

SpecAccum == AccumInit /\ [][AccumNext]_vars

\* vad.is_speech(&frame) in a session of utterances of SpeechRun frames
\* with PauseRun frames of silence after each.
SessionSpeech(frame) == (frame - 1) % (SpeechRun + PauseRun) < SpeechRun

\* The results of transcribe in a session: an error, white space, a text,
\* and a text that is padded and marked no_speech.
SessionResults ==
    { r \in TranscribeResults :
        \/ r.kind = "err"
        \/ r.text \in {<<" ", " ">>, <<"a">>} /\ r.no_speech = "absent"
        \/ r.text = <<" ", "a", " ">> /\ r.no_speech = "true" }

\* A whole session of such utterances: the driver delivers whole frames,
\* the segmenter closes a segment in the pause after an utterance or at the
\* stop, and the worker meets each of these results, with the engine
\* mutex, the insert and the emit working or failing.
SessionNext ==
    \/ StreamingOpen
    \/ StreamingStop
    \/ AudioCallback({STREAM_FRAME_SIZE}, MaxSession)
    \/ CallbackEmit
    \/ VadInit
    \/ VadLoopTop
    \/ VadRecvFrame({SessionSpeech(Head(frame_q))})
    \/ VadRecvTimeout
    \/ VadRecvDisconnected
    \/ WorkerRecvSegment(SessionResults)
    \/ WorkerRecvTimeout
    \/ WorkerCheckStop
    \/ WorkerRecvDisconnected
    \/ PipeStopFlag
    \/ PipeStopCapture
    \/ PipeJoinCapture
    \/ PipeJoinVad
    \/ PipeJoinWorker

SpecSession == PipeInit /\ [][SessionNext]_vars

\* The results of transcribe in a session in which every call succeeds:
\* Ok with success = true, and a text that can be white space.
SuccessResults == { r \in SessionResults : r.kind = "ok" /\ r.success }

\* The same session with a sidecar that answers every request with a
\* success; the engine mutex, the insert and the emit work or fail.
CountNext ==
    \/ StreamingOpen
    \/ StreamingStop
    \/ AudioCallback({STREAM_FRAME_SIZE}, MaxSession)
    \/ CallbackEmit
    \/ VadInit
    \/ VadLoopTop
    \/ VadRecvFrame({SessionSpeech(Head(frame_q))})
    \/ VadRecvTimeout
    \/ VadRecvDisconnected
    \/ WorkerRecvSegment(SuccessResults)
    \/ WorkerRecvTimeout
    \/ WorkerCheckStop
    \/ WorkerRecvDisconnected
    \/ PipeStopFlag
    \/ PipeStopCapture
    \/ PipeJoinCapture
    \/ PipeJoinVad
    \/ PipeJoinWorker

SpecCount == PipeInit /\ [][CountNext]_vars

\* ------------------------------------------------------------------------
\* The application: the hotkey handlers, the release thread and the
\* recording and continuous-listening commands (SpecHotkey)
\*
\* A pipeline is seen here from outside: start returns it with its
\* streaming thread spawned, the thread then opens the input stream or
\* fails, and stop (which returns only when the threads have) ends it.
\* ------------------------------------------------------------------------

\* A pipeline whose input stream is open and delivering audio.
Capturing(p) == p = "playing"

\* audio_capture::start_recording as seen by its caller: Err("Already
\* recording") if the audio thread holds a recording, else the device and
\* the file decide.
StartRecordingResults == IF current_recording THEN {FALSE} ELSE BOOLEAN

\* audio_capture::stop_recording as seen by its caller: Ok when nothing is
\* recording; finalizing the WAV writer of a recording may fail.
StopRecordingResults == IF current_recording THEN BOOLEAN ELSE {TRUE}

\* handle_hotkey_pressed: take and stop the pipeline in the slot and set
\* WAS_LISTENING; emit recording; start_recording; on Ok store the path in
\* recording_state, on Err emit error and idle.
HotkeyPressed ==
    /\ ~key_down
    /\ cycle < MaxCycles
    /\ LET c == cycle + 1
           was == continuous_pipeline # "none"
       IN  /\ cycle' = c
           /\ key_down' = TRUE
           /\ continuous_pipeline' = "none"
           /\ WAS_LISTENING' = (was \/ WAS_LISTENING)
           /\ paused' = [paused EXCEPT ![c] = was]
           /\ \E ok \in StartRecordingResults :
               IF ok
               THEN /\ current_recording' = TRUE
                    /\ recording_state' =
                           [is_recording |-> TRUE, current_file |-> TRUE]
                    /\ ev' = [ev EXCEPT ![c] = <<"recording">>]
                    /\ rec_failed' = rec_failed
               ELSE /\ ev' = [ev EXCEPT ![c] = <<"recording", "idle">>]
                    /\ rec_failed' = [rec_failed EXCEPT ![c] = TRUE]
                    /\ UNCHANGED <<current_recording, recording_state>>
    /\ UNCHANGED <<rt_pc, rt_file, rt_pipe>>
    /\ UNCHANGED <<seg_vars, pipe_vars>>
    /\ UNCHANGED rpc_vars
    /\ UNCHANGED wk_vars
    /\ UNCHANGED cmd_vars
    /\ UNCHANGED acc_vars
    /\ UNCHANGED life_vars
    /\ UNCHANGED reg_vars
    /\ UNCHANGED clip_vars
    /\ UNCHANGED db_vars
    /\ UNCHANGED det_vars
    /\ UNCHANGED line_vars
    /\ UNCHANGED lock_vars

\* handle_hotkey_released: emit transcribing, take the file path out of
\* recording_state, spawn the release thread.
HotkeyReleased ==
    /\ key_down
    /\ key_down' = FALSE
    /\ ev' = [ev EXCEPT ![cycle] = Append(@, "transcribing")]
    /\ rt_file' = [rt_file EXCEPT ![cycle] = recording_state.current_file]
    /\ recording_state' = [is_recording |-> FALSE, current_file |-> FALSE]
    /\ rt_pc' = [rt_pc EXCEPT ![cycle] = "stop_recording"]
    /\ UNCHANGED <<continuous_pipeline, WAS_LISTENING, current_recording,
                   cycle, rt_pipe, paused, rec_failed>>
    /\ UNCHANGED <<seg_vars, pipe_vars>>
    /\ UNCHANGED rpc_vars
    /\ UNCHANGED wk_vars
    /\ UNCHANGED cmd_vars
    /\ UNCHANGED acc_vars
    /\ UNCHANGED life_vars
    /\ UNCHANGED reg_vars
    /\ UNCHANGED clip_vars
    /\ UNCHANGED db_vars
    /\ UNCHANGED det_vars
    /\ UNCHANGED line_vars
    /\ UNCHANGED lock_vars

\* A release thread that leaves without a word when stop_recording fails
\* or no file path was captured.
RtStopRecordingSilent(c) ==
    /\ rt_pc[c] = "stop_recording"
    /\ current_recording' = FALSE
    /\ \E ok \in StopRecordingResults :
        rt_pc' = [rt_pc EXCEPT ![c] = IF ok /\ rt_file[c] THEN "transcribe"
                                       ELSE "done"]
    /\ UNCHANGED <<continuous_pipeline, WAS_LISTENING, recording_state,
                   key_down, cycle, rt_file, rt_pipe, ev, paused, rec_failed>>
    /\ UNCHANGED <<seg_vars, pipe_vars>>
    /\ UNCHANGED rpc_vars
    /\ UNCHANGED wk_vars
    /\ UNCHANGED cmd_vars
    /\ UNCHANGED acc_vars
    /\ UNCHANGED life_vars
    /\ UNCHANGED reg_vars
    /\ UNCHANGED clip_vars
    /\ UNCHANGED db_vars
    /\ UNCHANGED det_vars
    /\ UNCHANGED line_vars
    /\ UNCHANGED lock_vars

\* Release thread, lines 163-189: stop_recording; on Err, or with no file
\* path, emit error and idle and return.
RtStopRecording(c) ==
    /\ rt_pc[c] = "stop_recording"
    /\ current_recording' = FALSE
    /\ \E ok \in StopRecordingResults :
        IF ok /\ rt_file[c]
        THEN /\ rt_pc' = [rt_pc EXCEPT ![c] = "transcribe"]
             /\ ev' = ev
        ELSE /\ rt_pc' = [rt_pc EXCEPT ![c] = "done"]
             /\ ev' = [ev EXCEPT ![c] = Append(@, "idle")]
    /\ UNCHANGED <<continuous_pipeline, WAS_LISTENING, recording_state,
                   key_down, cycle, rt_file, rt_pipe, paused, rec_failed>>
    /\ UNCHANGED <<seg_vars, pipe_vars>>
    /\ UNCHANGED rpc_vars
    /\ UNCHANGED wk_vars
    /\ UNCHANGED cmd_vars
    /\ UNCHANGED acc_vars
    /\ UNCHANGED life_vars
    /\ UNCHANGED reg_vars
    /\ UNCHANGED clip_vars
    /\ UNCHANGED db_vars
    /\ UNCHANGED det_vars
    /\ UNCHANGED line_vars
    /\ UNCHANGED lock_vars

\* Release thread, lines 191-369: transcribe, post-process, paste (either
\* arm of the match goes on), remove the file, emit idle.
RtTranscribe(c) ==
    /\ rt_pc[c] = "transcribe"
    /\ rt_pc' = [rt_pc EXCEPT ![c] = "swap"]
    /\ ev' = [ev EXCEPT ![c] = Append(@, "idle")]
    /\ UNCHANGED <<continuous_pipeline, WAS_LISTENING, recording_state,
                   current_recording, key_down, cycle, rt_file, rt_pipe,
                   paused, rec_failed>>
    /\ UNCHANGED <<seg_vars, pipe_vars>>
    /\ UNCHANGED rpc_vars
    /\ UNCHANGED wk_vars
    /\ UNCHANGED cmd_vars
    /\ UNCHANGED acc_vars
    /\ UNCHANGED life_vars
    /\ UNCHANGED reg_vars
    /\ UNCHANGED clip_vars
    /\ UNCHANGED db_vars
    /\ UNCHANGED det_vars
    /\ UNCHANGED line_vars
    /\ UNCHANGED lock_vars

\* Release thread, line 372: WAS_LISTENING.swap(false).
RtSwap(c) ==
    /\ rt_pc[c] = "swap"
    /\ WAS_LISTENING' = FALSE
    /\ rt_pc' = [rt_pc EXCEPT ![c] = IF WAS_LISTENING THEN "start" ELSE "done"]
    /\ UNCHANGED <<continuous_pipeline, recording_state, current_recording,
                   key_down, cycle, rt_file, rt_pipe, ev, paused, rec_failed>>
    /\ UNCHANGED <<seg_vars, pipe_vars>>
    /\ UNCHANGED rpc_vars
    /\ UNCHANGED wk_vars
    /\ UNCHANGED cmd_vars
    /\ UNCHANGED acc_vars
    /\ UNCHANGED life_vars
    /\ UNCHANGED reg_vars
    /\ UNCHANGED clip_vars
    /\ UNCHANGED db_vars
    /\ UNCHANGED det_vars
    /\ UNCHANGED line_vars
    /\ UNCHANGED lock_vars

\* Release thread, lines 391-399: ContinuousPipeline::start(.., 1.5, 60),
\* called without the slot lock.
RtStart(c) ==
    /\ rt_pc[c] = "start"
    /\ ev' = [ev EXCEPT ![c] = Append(@, "resume")]
    /\ \E ok \in BOOLEAN :
        IF ok
        THEN /\ rt_pipe' = [rt_pipe EXCEPT ![c] = "spawned"]
             /\ rt_pc' = [rt_pc EXCEPT ![c] = "store"]
        ELSE /\ rt_pipe' = rt_pipe
             /\ rt_pc' = [rt_pc EXCEPT ![c] = "done"]
    /\ UNCHANGED <<continuous_pipeline, WAS_LISTENING, recording_state,
                   current_recording, key_down, cycle, rt_file, paused,
                   rec_failed>>
    /\ UNCHANGED <<seg_vars, pipe_vars>>
    /\ UNCHANGED rpc_vars
    /\ UNCHANGED wk_vars
    /\ UNCHANGED cmd_vars
    /\ UNCHANGED acc_vars
    /\ UNCHANGED life_vars
    /\ UNCHANGED reg_vars
    /\ UNCHANGED clip_vars
    /\ UNCHANGED db_vars
    /\ UNCHANGED det_vars
    /\ UNCHANGED line_vars
    /\ UNCHANGED lock_vars

\* Release thread, lines 401-403: *p = Some(pipeline); a pipeline that was
\* in the slot is dropped, and Drop stops it.
RtStore(c) ==
    /\ rt_pc[c] = "store"
    /\ continuous_pipeline' = rt_pipe[c]
    /\ rt_pipe' = [rt_pipe EXCEPT ![c] = "none"]
    /\ rt_pc' = [rt_pc EXCEPT ![c] = "done"]
    /\ UNCHANGED <<WAS_LISTENING, recording_state, current_recording,
                   key_down, cycle, rt_file, ev, paused, rec_failed>>
    /\ UNCHANGED <<seg_vars, pipe_vars>>
    /\ UNCHANGED rpc_vars
    /\ UNCHANGED wk_vars
    /\ UNCHANGED cmd_vars
    /\ UNCHANGED acc_vars
    /\ UNCHANGED life_vars
    /\ UNCHANGED reg_vars
    /\ UNCHANGED clip_vars
    /\ UNCHANGED db_vars
    /\ UNCHANGED det_vars
    /\ UNCHANGED line_vars
    /\ UNCHANGED lock_vars

\* The streaming thread of the pipeline in the slot opens the input stream,
\* or fails and returns.
SlotCaptureOpens ==
    /\ continuous_pipeline = "spawned"
    /\ continuous_pipeline' \in {"playing", "failed"}
    /\ UNCHANGED <<WAS_LISTENING, recording_state, current_recording,
                   key_down, cycle, rt_pc, rt_file, rt_pipe, ev, paused,
                   rec_failed>>
    /\ UNCHANGED <<seg_vars, pipe_vars>>
    /\ UNCHANGED rpc_vars
    /\ UNCHANGED wk_vars
    /\ UNCHANGED cmd_vars
    /\ UNCHANGED acc_vars
    /\ UNCHANGED life_vars
    /\ UNCHANGED reg_vars
    /\ UNCHANGED clip_vars
    /\ UNCHANGED db_vars
    /\ UNCHANGED det_vars
    /\ UNCHANGED line_vars
    /\ UNCHANGED lock_vars

\* The same for a pipeline a release thread still holds.
HeldCaptureOpens(c) ==
    /\ rt_pipe[c] = "spawned"
    /\ \E st \in {"playing", "failed"} :
        rt_pipe' = [rt_pipe EXCEPT ![c] = st]
    /\ UNCHANGED <<continuous_pipeline, WAS_LISTENING, recording_state,
                   current_recording, key_down, cycle, rt_pc, rt_file, ev,
                   paused, rec_failed>>
    /\ UNCHANGED <<seg_vars, pipe_vars>>
    /\ UNCHANGED rpc_vars
    /\ UNCHANGED wk_vars
    /\ UNCHANGED cmd_vars
    /\ UNCHANGED acc_vars
    /\ UNCHANGED life_vars
    /\ UNCHANGED reg_vars
    /\ UNCHANGED clip_vars
    /\ UNCHANGED db_vars
    /\ UNCHANGED det_vars
    /\ UNCHANGED line_vars
    /\ UNCHANGED lock_vars

\* commands::start_continuous_listening, past the "Already listening"
\* check: start a pipeline and put it in the slot, or return its error.
CmdStartContinuous ==
    /\ continuous_pipeline = "none"
    /\ \E ok \in BOOLEAN :
        continuous_pipeline' = IF ok THEN "spawned" ELSE "none"
    /\ UNCHANGED <<WAS_LISTENING, recording_state, current_recording,
                   key_down, cycle, rt_pc, rt_file, rt_pipe, ev, paused,
                   rec_failed>>
    /\ UNCHANGED <<seg_vars, pipe_vars>>
    /\ UNCHANGED rpc_vars
    /\ UNCHANGED wk_vars
    /\ UNCHANGED cmd_vars
    /\ UNCHANGED acc_vars
    /\ UNCHANGED life_vars
    /\ UNCHANGED reg_vars
    /\ UNCHANGED clip_vars
    /\ UNCHANGED db_vars
    /\ UNCHANGED det_vars
    /\ UNCHANGED line_vars
    /\ UNCHANGED lock_vars

\* commands::stop_continuous_listening, past the "Not listening" check.
CmdStopContinuous ==
    /\ continuous_pipeline # "none"
    /\ continuous_pipeline' = "none"
    /\ UNCHANGED <<WAS_LISTENING, recording_state, current_recording,
                   key_down, cycle, rt_pc, rt_file, rt_pipe, ev, paused,
                   rec_failed>>
    /\ UNCHANGED <<seg_vars, pipe_vars>>
    /\ UNCHANGED rpc_vars
    /\ UNCHANGED wk_vars
    /\ UNCHANGED cmd_vars
    /\ UNCHANGED acc_vars
    /\ UNCHANGED life_vars
    /\ UNCHANGED reg_vars
    /\ UNCHANGED clip_vars
    /\ UNCHANGED db_vars
    /\ UNCHANGED det_vars
    /\ UNCHANGED line_vars
    /\ UNCHANGED lock_vars

\* commands::start_recording, past the "Already recording" check.
CmdStartRecording ==
    /\ ~recording_state.is_recording
    /\ \E ok \in StartRecordingResults :
        IF ok
        THEN /\ current_recording' = TRUE
             /\ recording_state' =
                    [is_recording |-> TRUE, current_file |-> TRUE]
        ELSE UNCHANGED <<current_recording, recording_state>>
    /\ UNCHANGED <<continuous_pipeline, WAS_LISTENING, key_down, cycle, rt_pc,
                   rt_file, rt_pipe, ev, paused, rec_failed>>
    /\ UNCHANGED <<seg_vars, pipe_vars>>
    /\ UNCHANGED rpc_vars
    /\ UNCHANGED wk_vars
    /\ UNCHANGED cmd_vars
    /\ UNCHANGED acc_vars
    /\ UNCHANGED life_vars
    /\ UNCHANGED reg_vars
    /\ UNCHANGED clip_vars
    /\ UNCHANGED db_vars
    /\ UNCHANGED det_vars
    /\ UNCHANGED line_vars
    /\ UNCHANGED lock_vars

\* commands::stop_recording, past the "Not recording" check: without a
\* file path it returns before audio_capture::stop_recording.
CmdStopRecording ==
    /\ recording_state.is_recording
    /\ recording_state' = [is_recording |-> FALSE, current_file |-> FALSE]
    /\ current_recording' = IF recording_state.current_file THEN FALSE
                            ELSE current_recording
    /\ UNCHANGED <<continuous_pipeline, WAS_LISTENING, key_down, cycle, rt_pc,
                   rt_file, rt_pipe, ev, paused, rec_failed>>
    /\ UNCHANGED <<seg_vars, pipe_vars>>
    /\ UNCHANGED rpc_vars
    /\ UNCHANGED wk_vars
    /\ UNCHANGED cmd_vars
    /\ UNCHANGED acc_vars
    /\ UNCHANGED life_vars
    /\ UNCHANGED reg_vars
    /\ UNCHANGED clip_vars
    /\ UNCHANGED db_vars
    /\ UNCHANGED det_vars
    /\ UNCHANGED line_vars
    /\ UNCHANGED lock_vars

HotkeyNext ==
    \/ HotkeyPressed
    \/ HotkeyReleased
    \/ \E c \in Cycles : RtStopRecording(c)
    \/ \E c \in Cycles : RtTranscribe(c)
    \/ \E c \in Cycles : RtSwap(c)
    \/ \E c \in Cycles : RtStart(c)
    \/ \E c \in Cycles : RtStore(c)
    \/ SlotCaptureOpens
    \/ \E c \in Cycles : HeldCaptureOpens(c)
    \/ CmdStartContinuous
    \/ CmdStopContinuous
    \/ CmdStartRecording
    \/ CmdStopRecording

\* Both callers start the pipeline with (1.5 s, 60 s); no pipeline of the
\* detailed kind runs here.
HotkeyInit ==
    /\ seg_cfg = [silence_ms |-> 1500, max_segment_sec |-> 60]
    /\ SegStart
    /\ NoDetector
    /\ NoPipeline
    /\ AppStateNew
    /\ ASREngineNew
    /\ NoRequestLine
    /\ NoLockTaken
    /\ WorkerNew
    /\ UiNew
    /\ FrameAccumulatorNew(1)
    /\ NoSidecarYet
    /\ DesktopNew

SpecHotkey == HotkeyInit /\ [][HotkeyNext]_vars

\* ------------------------------------------------------------------------
\* The continuous-listening commands over one pipeline in full
\* (SpecListen): start_continuous_listening and stop_continuous_listening
\* hold the lock of AppState.continuous_pipeline from their first line to
\* their return, so that one of them runs at a time.
\* ------------------------------------------------------------------------

\* The lock of AppState.continuous_pipeline is free: no
\* stop_continuous_listening is inside ContinuousPipeline::stop.
SlotLockFree == sup_pc \in {"none", "running"}

\* A start_continuous_listening that starts a pipeline whatever is in the
\* slot.
StartContinuousListeningAnyway ==
    /\ cmd_ret = "none"
    /\ SlotLockFree
    /\ \E ok \in BOOLEAN :
        IF ok
        THEN /\ stop_flag' = FALSE
             /\ sup_pc' = "running"
             /\ stop_msg' = FALSE
             /\ cap_pc' = "spawned"
             /\ cb_pc' = "idle"
             /\ output_buffer' = 0
             /\ produced' = 0
             /\ frame_q' = <<>>
             /\ vad_pc' = "init"
             /\ seg_q' = <<>>
             /\ wk_pc' = "recv"
             /\ segment_count' = 0
             /\ files' = files
             /\ vad_exit' = NoVadExit
             /\ seg_cfg' = seg_cfg
             /\ vsm' = VadStateMachineNew(seg_cfg.silence_ms,
                                          seg_cfg.max_segment_sec)
             /\ nfed' = 0
             /\ seg_done' = FALSE
             /\ seg_ret' = NoReturn
             /\ sil_run' = 0
             /\ in_speech' = 0
             /\ idle_run' = 0
             /\ onset' = NoOnset
             /\ PipeStarted'
             /\ SegStart'
             /\ continuous_pipeline' = "spawned"
             /\ cmd_ret' = "started"
        ELSE /\ cmd_ret' = "start failed"
             /\ UNCHANGED <<seg_vars, pipe_vars, continuous_pipeline>>
    /\ UNCHANGED <<WAS_LISTENING, recording_state, current_recording,
                   key_down, cycle, rt_pc, rt_file, rt_pipe, ev, paused,
                   rec_failed>>
    /\ UNCHANGED rpc_vars
    /\ UNCHANGED wk_vars
    /\ UNCHANGED acc_vars
    /\ UNCHANGED life_vars
    /\ UNCHANGED reg_vars
    /\ UNCHANGED clip_vars
    /\ UNCHANGED db_vars
    /\ UNCHANGED det_vars
    /\ UNCHANGED line_vars
    /\ UNCHANGED lock_vars

\* commands::start_continuous_listening, the whole command: with a
\* pipeline in the slot Err("Already listening"); else
\* ContinuousPipeline::start(.., 1.5, 60), whose error is returned, and on
\* Ok the pipeline (three threads spawned, nothing run yet) goes into the
\* slot.
StartContinuousListening ==
    /\ cmd_ret = "none"
    /\ SlotLockFree
    /\ IF continuous_pipeline # "none"
       THEN /\ cmd_ret' = "Already listening"
            /\ UNCHANGED <<seg_vars, pipe_vars, continuous_pipeline>>
       ELSE \E ok \in BOOLEAN :
            IF ok
            THEN /\ stop_flag' = FALSE
                 /\ sup_pc' = "running"
                 /\ stop_msg' = FALSE
                 /\ cap_pc' = "spawned"
                 /\ cb_pc' = "idle"
                 /\ output_buffer' = 0
                 /\ produced' = 0
                 /\ frame_q' = <<>>
                 /\ vad_pc' = "init"
                 /\ seg_q' = <<>>
                 /\ wk_pc' = "recv"
                 /\ segment_count' = 0
                 /\ files' = files
                 /\ vad_exit' = NoVadExit
                 /\ seg_cfg' = seg_cfg
                 /\ vsm' = VadStateMachineNew(seg_cfg.silence_ms,
                                              seg_cfg.max_segment_sec)
                 /\ nfed' = 0
                 /\ seg_done' = FALSE
                 /\ seg_ret' = NoReturn
                 /\ sil_run' = 0
                 /\ in_speech' = 0
                 /\ idle_run' = 0
                 /\ onset' = NoOnset
                 /\ PipeStarted'
                 /\ SegStart'
                 /\ continuous_pipeline' = "spawned"
                 /\ cmd_ret' = "started"
            ELSE /\ cmd_ret' = "start failed"
                 /\ UNCHANGED <<seg_vars, pipe_vars, continuous_pipeline>>
    /\ UNCHANGED <<WAS_LISTENING, recording_state, current_recording,
                   key_down, cycle, rt_pc, rt_file, rt_pipe, ev, paused,
                   rec_failed>>
    /\ UNCHANGED rpc_vars
    /\ UNCHANGED wk_vars
    /\ UNCHANGED acc_vars
    /\ UNCHANGED life_vars
    /\ UNCHANGED reg_vars
    /\ UNCHANGED clip_vars
    /\ UNCHANGED db_vars
    /\ UNCHANGED det_vars
    /\ UNCHANGED line_vars
    /\ UNCHANGED lock_vars

\* commands::stop_continuous_listening up to the first statement of
\* ContinuousPipeline::stop: with an empty slot Err("Not listening"); else
\* the pipeline is taken out of the slot and stop_flag.store(true).  The
\* rest of stop is PipeStopCapture .. PipeJoinWorker, and the command
\* returns in PipelineDrop.
StopContinuousListening ==
    /\ cmd_ret = "none"
    /\ SlotLockFree
    /\ IF continuous_pipeline = "none"
       THEN /\ cmd_ret' = "Not listening"
            /\ UNCHANGED <<pipe_vars, continuous_pipeline>>
       ELSE /\ continuous_pipeline' = "none"
            /\ stop_flag' = TRUE
            /\ sup_pc' = "stop_capture"
            /\ cmd_ret' = cmd_ret
            /\ UNCHANGED <<stop_msg, cap_pc, cb_pc, output_buffer, produced,
                           frame_q, vad_pc, seg_q, wk_pc, segment_count,
                           files, vad_exit>>
    /\ UNCHANGED seg_vars
    /\ UNCHANGED <<WAS_LISTENING, recording_state, current_recording,
                   key_down, cycle, rt_pc, rt_file, rt_pipe, ev, paused,
                   rec_failed>>
    /\ UNCHANGED rpc_vars
    /\ UNCHANGED wk_vars
    /\ UNCHANGED acc_vars
    /\ UNCHANGED life_vars
    /\ UNCHANGED reg_vars
    /\ UNCHANGED clip_vars
    /\ UNCHANGED db_vars
    /\ UNCHANGED det_vars
    /\ UNCHANGED line_vars
    /\ UNCHANGED lock_vars

\* The end of stop_continuous_listening: the pipeline that stop has
\* returned from goes out of scope, and Drop for ContinuousPipeline calls
\* stop once more: stop_flag.store(true), and the three Options are None.
\* The command returns Ok(count).
PipelineDrop ==
    /\ sup_pc = "stopped"
    /\ stop_flag' = TRUE
    /\ sup_pc' = "none"
    /\ cmd_ret' = "stopped"
    /\ UNCHANGED <<stop_msg, cap_pc, cb_pc, output_buffer, produced, frame_q,
                   vad_pc, seg_q, wk_pc, segment_count, files, vad_exit>>
    /\ UNCHANGED seg_vars
    /\ UNCHANGED hk_vars
    /\ UNCHANGED rpc_vars
    /\ UNCHANGED wk_vars
    /\ UNCHANGED acc_vars
    /\ UNCHANGED life_vars
    /\ UNCHANGED reg_vars
    /\ UNCHANGED clip_vars
    /\ UNCHANGED db_vars
    /\ UNCHANGED det_vars
    /\ UNCHANGED line_vars
    /\ UNCHANGED lock_vars

\* The UI reads what the command returned.
CmdReturn ==
    /\ cmd_ret # "none"
    /\ cmd_ret' = "none"
    /\ UNCHANGED <<seg_vars, pipe_vars, hk_vars>>
    /\ UNCHANGED rpc_vars
    /\ UNCHANGED wk_vars
    /\ UNCHANGED acc_vars
    /\ UNCHANGED life_vars
    /\ UNCHANGED reg_vars
    /\ UNCHANGED clip_vars
    /\ UNCHANGED db_vars
    /\ UNCHANGED det_vars
    /\ UNCHANGED line_vars
    /\ UNCHANGED lock_vars

\* The pipeline hears silence; the driver delivers whole frames.
ListenNext ==
    \/ StartContinuousListening
    \/ StopContinuousListening
    \/ PipelineDrop
    \/ CmdReturn
    \/ StreamingOpen
    \/ StreamingStop
    \/ AudioCallback({STREAM_FRAME_SIZE}, MaxListen)
    \/ CallbackEmit
    \/ VadInit
    \/ VadLoopTop
    \/ VadRecvFrame({FALSE})
    \/ VadRecvTimeout
    \/ VadRecvDisconnected
    \/ WorkerRecvTimeout
    \/ WorkerCheckStop
    \/ WorkerRecvDisconnected
    \/ PipeStopCapture
    \/ PipeJoinCapture
    \/ PipeJoinVad
    \/ PipeJoinWorker

SpecListen == HotkeyInit /\ [][ListenNext]_vars

\* ------------------------------------------------------------------------
\* The engine client and its sidecar (SpecRpc): transcription.rs
\*
\* Every caller locks the one Mutex<ASREngine> of AppState, calls one
\* method and unlocks.  A request line is its id; a response line is
\* [id, body].
\* ------------------------------------------------------------------------

\* The methods, by the shape of their code: transcribe and ping check the
\* child with try_wait first; load_model stands for the methods that go
\* straight to the write (load_model, load_vad, warmup_model, warmup_vad,
\* set_model, is_model_cached, get_model_status and the post-process ones).
RpcMethods == {"transcribe", "ping", "load_model"}

MethodsOf(c) ==
    IF c = "ui" THEN RpcMethods \cup {"start", "stop"} ELSE {"transcribe"}

\* What a line from the sidecar can hold: a result with success = true, a
\* result with success = false, an error, valid JSON with neither, and
\* text that is not JSON.
LineBodies == {"result", "failed", "error", "neither", "garbage"}

\* What the client makes of the line it read (with "eof" for the empty
\* line of a closed pipe): serde_json::from_str, then response.error, then
\* response.result, then result.success.  The id of the line is not looked
\* at.  ping answers Ok(false) / Ok(true) where the others return Err / Ok.
Outcome(body) ==
    CASE body = "eof"     -> "eof"
      [] body = "garbage" -> "parse_error"
      [] body = "error"   -> "engine_error"
      [] body = "neither" -> "no_result"
      [] body = "failed"  -> "failed"
      [] body = "result"  -> "ok"

\* A caller that enters a method without waiting for the mutex.
RpcLockUnguarded(c, m) ==
    /\ rpc_pc[c] = "idle"
    /\ engine_lock' = c
    /\ rpc_pc' = [rpc_pc EXCEPT ![c] = "begin"]
    /\ rpc_call' = [rpc_call EXCEPT ![c] = [NoCall EXCEPT !.method = m]]
    /\ UNCHANGED <<process, child, request_id, pipe_in, pipe_out, stray>>
    /\ UNCHANGED <<seg_vars, pipe_vars, hk_vars>>
    /\ UNCHANGED wk_vars
    /\ UNCHANGED cmd_vars
    /\ UNCHANGED acc_vars
    /\ UNCHANGED life_vars
    /\ UNCHANGED reg_vars
    /\ UNCHANGED clip_vars
    /\ UNCHANGED db_vars
    /\ UNCHANGED det_vars
    /\ UNCHANGED line_vars
    /\ UNCHANGED lock_vars

\* asr_engine.lock(): the caller takes the mutex and enters a method.
RpcLock(c, m) ==
    /\ rpc_pc[c] = "idle"
    /\ engine_lock = "none"
    /\ engine_lock' = c
    /\ rpc_pc' = [rpc_pc EXCEPT ![c] = "begin"]
    /\ rpc_call' = [rpc_call EXCEPT ![c] = [NoCall EXCEPT !.method = m]]
    /\ UNCHANGED <<process, child, request_id, pipe_in, pipe_out, stray>>
    /\ UNCHANGED <<seg_vars, pipe_vars, hk_vars>>
    /\ UNCHANGED wk_vars
    /\ UNCHANGED cmd_vars
    /\ UNCHANGED acc_vars
    /\ UNCHANGED life_vars
    /\ UNCHANGED reg_vars
    /\ UNCHANGED clip_vars
    /\ UNCHANGED db_vars
    /\ UNCHANGED det_vars
    /\ UNCHANGED line_vars
    /\ UNCHANGED lock_vars

Finish(c, res) ==
    /\ rpc_pc' = [rpc_pc EXCEPT ![c] = "returned"]
    /\ rpc_call' = [rpc_call EXCEPT ![c].result = res,
                                    ![c].found = IF process THEN "some"
                                                 ELSE "none"]

\* A liveness check that reports the exit and keeps the handle.
RpcBeginKeepHandle(c) ==
    /\ rpc_pc[c] = "begin"
    /\ rpc_call[c].method \in RpcMethods
    /\ LET m == rpc_call[c].method
           checks == m \in {"transcribe", "ping"}
       IN
       IF ~process THEN
           /\ Finish(c, "not_running")
           /\ UNCHANGED <<process, child, request_id>>
       ELSE IF checks /\ child = "dead" THEN
           /\ Finish(c, "exited")
           /\ UNCHANGED <<process, child>>
           /\ request_id' = request_id
       ELSE
           \/ /\ checks
              /\ Finish(c, "wait_error")
              /\ process' = (m = "ping")
              /\ child' = IF m = "ping" THEN child ELSE "none"
              /\ request_id' = request_id
           \/ /\ request_id <= MaxRequests
              /\ request_id' = request_id + 1
              /\ rpc_pc' = [rpc_pc EXCEPT ![c] = "write"]
              /\ rpc_call' = [rpc_call EXCEPT ![c].id = request_id,
                                              ![c].found = "some"]
              /\ UNCHANGED <<process, child>>
    /\ pipe_in' = IF process' THEN pipe_in ELSE <<>>
    /\ pipe_out' = IF process' THEN pipe_out ELSE <<>>
    /\ UNCHANGED <<engine_lock, stray>>
    /\ UNCHANGED <<seg_vars, pipe_vars, hk_vars>>
    /\ UNCHANGED wk_vars
    /\ UNCHANGED cmd_vars
    /\ UNCHANGED acc_vars
    /\ UNCHANGED life_vars
    /\ UNCHANGED reg_vars
    /\ UNCHANGED clip_vars
    /\ UNCHANGED db_vars
    /\ UNCHANGED det_vars
    /\ UNCHANGED line_vars
    /\ UNCHANGED lock_vars

\* The head of transcribe, ping and the other methods: without a handle
\* return "not running"; transcribe and ping then call try_wait and drop
\* the handle if the child has exited (transcribe also if try_wait fails);
\* then request_id.fetch_add(1).
RpcBegin(c) ==
    /\ rpc_pc[c] = "begin"
    /\ rpc_call[c].method \in RpcMethods
    /\ LET m == rpc_call[c].method
           checks == m \in {"transcribe", "ping"}
       IN
       IF ~process THEN
           /\ Finish(c, "not_running")
           /\ UNCHANGED <<process, child, request_id>>
       ELSE IF checks /\ child = "dead" THEN
           /\ Finish(c, "exited")
           /\ process' = FALSE
           /\ child' = "none"
           /\ request_id' = request_id
       ELSE
           \/ /\ checks
              /\ Finish(c, "wait_error")
              /\ process' = (m = "ping")
              /\ child' = IF m = "ping" THEN child ELSE "none"
              /\ request_id' = request_id
           \/ /\ request_id <= MaxRequests
              /\ request_id' = request_id + 1
              /\ rpc_pc' = [rpc_pc EXCEPT ![c] = "write"]
              /\ rpc_call' = [rpc_call EXCEPT ![c].id = request_id,
                                              ![c].found = "some"]
              /\ UNCHANGED <<process, child>>
    /\ pipe_in' = IF process' THEN pipe_in ELSE <<>>
    /\ pipe_out' = IF process' THEN pipe_out ELSE <<>>
    /\ UNCHANGED <<engine_lock, stray>>
    /\ UNCHANGED <<seg_vars, pipe_vars, hk_vars>>
    /\ UNCHANGED wk_vars
    /\ UNCHANGED cmd_vars
    /\ UNCHANGED acc_vars
    /\ UNCHANGED life_vars
    /\ UNCHANGED reg_vars
    /\ UNCHANGED clip_vars
    /\ UNCHANGED db_vars
    /\ UNCHANGED det_vars
    /\ UNCHANGED line_vars
    /\ UNCHANGED lock_vars

\* writeln!(process.stdin, json) and flush: one line; with the child gone
\* the pipe is broken and `?` returns the error.
RpcWrite(c) ==
    /\ rpc_pc[c] = "write"
    /\ IF child = "alive"
       THEN /\ pipe_in' = Append(pipe_in, rpc_call[c].id)
            /\ last_written' = <<rpc_call[c].id>>
            /\ rpc_pc' = [rpc_pc EXCEPT ![c] = "read"]
            /\ rpc_call' = [rpc_call EXCEPT ![c].w = @ + 1]
       ELSE /\ Finish(c, "io_error")
            /\ pipe_in' = pipe_in
            /\ last_written' = last_written
    /\ UNCHANGED <<process, child, request_id, engine_lock, pipe_out, stray>>
    /\ UNCHANGED <<seg_vars, pipe_vars, hk_vars>>
    /\ UNCHANGED wk_vars
    /\ UNCHANGED cmd_vars
    /\ UNCHANGED acc_vars
    /\ UNCHANGED life_vars
    /\ UNCHANGED reg_vars
    /\ UNCHANGED clip_vars
    /\ UNCHANGED db_vars
    /\ UNCHANGED det_vars
    /\ UNCHANGED lock_vars

\* A read that does not wait for the request to be written.
RpcReadEarly(c) ==
    /\ rpc_pc[c] \in {"write", "read"}
    /\ pipe_out # <<>>
    /\ rpc_pc' = [rpc_pc EXCEPT ![c] = "returned"]
    /\ rpc_call' = [rpc_call EXCEPT ![c].r = @ + 1,
                                    ![c].resp_id = Head(pipe_out).id,
                                    ![c].result = Outcome(Head(pipe_out).body)]
    /\ pipe_out' = Tail(pipe_out)
    /\ UNCHANGED <<process, child, request_id, engine_lock, pipe_in, stray>>
    /\ UNCHANGED <<seg_vars, pipe_vars, hk_vars>>
    /\ UNCHANGED wk_vars
    /\ UNCHANGED cmd_vars
    /\ UNCHANGED acc_vars
    /\ UNCHANGED life_vars
    /\ UNCHANGED reg_vars
    /\ UNCHANGED clip_vars
    /\ UNCHANGED db_vars
    /\ UNCHANGED det_vars
    /\ UNCHANGED line_vars
    /\ UNCHANGED lock_vars

\* process.stdout.read_line(&mut line) and what follows it: the next line
\* of the pipe, or the empty line once the child is gone and the pipe is
\* empty.  The handle is left as it is on every path.
RpcRead(c) ==
    /\ rpc_pc[c] = "read"
    /\ pipe_out # <<>> \/ child = "dead"
    /\ LET line == IF pipe_out # <<>> THEN Head(pipe_out)
                   ELSE [id |-> 0, body |-> "eof"]
       IN  /\ rpc_pc' = [rpc_pc EXCEPT ![c] = "returned"]
           /\ rpc_call' = [rpc_call EXCEPT ![c].r = @ + 1,
                                           ![c].resp_id = line.id,
                                           ![c].result = Outcome(line.body)]
    /\ pipe_out' = IF pipe_out # <<>> THEN Tail(pipe_out) ELSE pipe_out
    /\ UNCHANGED <<process, child, request_id, engine_lock, pipe_in, stray>>
    /\ UNCHANGED <<seg_vars, pipe_vars, hk_vars>>
    /\ UNCHANGED wk_vars
    /\ UNCHANGED cmd_vars
    /\ UNCHANGED acc_vars
    /\ UNCHANGED life_vars
    /\ UNCHANGED reg_vars
    /\ UNCHANGED clip_vars
    /\ UNCHANGED db_vars
    /\ UNCHANGED det_vars
    /\ UNCHANGED line_vars
    /\ UNCHANGED lock_vars

\* ASREngine::start: with a handle in place it returns Ok at once ("already
\* running"); otherwise it spawns the sidecar and waits for its ready line,
\* and on any failure returns Err with no handle stored.
RpcStart(c) ==
    /\ rpc_pc[c] = "begin"
    /\ rpc_call[c].method = "start"
    /\ rpc_pc' = [rpc_pc EXCEPT ![c] = "returned"]
    /\ IF process
       THEN /\ rpc_call' = [rpc_call EXCEPT
                               ![c].result = "ok",
                               ![c].found = "some",
                               ![c].dead_handle = (child = "dead")]
            /\ UNCHANGED <<process, child, pipe_in, pipe_out>>
       ELSE \E ok \in BOOLEAN :
            /\ rpc_call' = [rpc_call EXCEPT
                               ![c].result = IF ok THEN "ok"
                                             ELSE "start_failed"]
            /\ process' = ok
            /\ child' = IF ok THEN "alive" ELSE "none"
            /\ pipe_in' = <<>>
            /\ pipe_out' = <<>>
    /\ UNCHANGED <<request_id, engine_lock, stray>>
    /\ UNCHANGED <<seg_vars, pipe_vars, hk_vars>>
    /\ UNCHANGED wk_vars
    /\ UNCHANGED cmd_vars
    /\ UNCHANGED acc_vars
    /\ UNCHANGED life_vars
    /\ UNCHANGED reg_vars
    /\ UNCHANGED clip_vars
    /\ UNCHANGED db_vars
    /\ UNCHANGED det_vars
    /\ UNCHANGED line_vars
    /\ UNCHANGED lock_vars

\* What ASREngine::stop does to the child of a handle it has taken: the
\* quit line is written (failures ignored), then after the sleep kill and
\* wait; without a handle nothing.
StopOps(had_handle) ==
    IF had_handle THEN <<"write quit", "kill", "wait">> ELSE <<>>

\* A stop that writes quit and lets go of the handle.
RpcStopQuitOnly(c) ==
    /\ rpc_pc[c] = "begin"
    /\ rpc_call[c].method = "stop"
    /\ Finish(c, "ok")
    /\ process' = FALSE
    /\ child' = child
    /\ pipe_in' = <<>>
    /\ pipe_out' = <<>>
    /\ last_written' = AfterQuit(process, child)
    /\ last_stop' = [by |-> "stop", had_handle |-> process,
                     ops |-> IF process THEN <<"write quit">> ELSE <<>>]
    /\ UNCHANGED <<request_id, engine_lock, stray>>
    /\ UNCHANGED <<st_pc, st_child, st_lines, st_elapsed>>
    /\ UNCHANGED <<seg_vars, pipe_vars, hk_vars>>
    /\ UNCHANGED wk_vars
    /\ UNCHANGED cmd_vars
    /\ UNCHANGED acc_vars
    /\ UNCHANGED reg_vars
    /\ UNCHANGED clip_vars
    /\ UNCHANGED db_vars
    /\ UNCHANGED det_vars
    /\ UNCHANGED lock_vars

\* ASREngine::stop: take the handle, write quit, sleep, kill and wait: the
\* child is gone whether it obeyed quit or not, and the pipes with it.
\* Without a handle it returns Ok and does nothing.
RpcStop(c) ==
    /\ rpc_pc[c] = "begin"
    /\ rpc_call[c].method = "stop"
    /\ Finish(c, "ok")
    /\ process' = FALSE
    /\ child' = "none"
    /\ pipe_in' = <<>>
    /\ pipe_out' = <<>>
    /\ last_written' = AfterQuit(process, child)
    /\ last_stop' = [by |-> "stop", had_handle |-> process,
                     ops |-> StopOps(process)]
    /\ UNCHANGED <<request_id, engine_lock, stray>>
    /\ UNCHANGED <<st_pc, st_child, st_lines, st_elapsed>>
    /\ UNCHANGED <<seg_vars, pipe_vars, hk_vars>>
    /\ UNCHANGED wk_vars
    /\ UNCHANGED cmd_vars
    /\ UNCHANGED acc_vars
    /\ UNCHANGED reg_vars
    /\ UNCHANGED clip_vars
    /\ UNCHANGED db_vars
    /\ UNCHANGED det_vars
    /\ UNCHANGED lock_vars

\* Drop for ASREngine: the last owner of the engine lets go of it (no
\* caller is in a method, and none can enter one afterwards), and drop
\* calls stop.
RpcDrop ==
    /\ engine_lock = "none"
    /\ \A c \in Callers : rpc_pc[c] = "idle"
    /\ engine_lock' = "dropped"
    /\ process' = FALSE
    /\ child' = "none"
    /\ pipe_in' = <<>>
    /\ pipe_out' = <<>>
    /\ last_written' = AfterQuit(process, child)
    /\ last_stop' = [by |-> "drop", had_handle |-> process,
                     ops |-> StopOps(process)]
    /\ UNCHANGED <<request_id, rpc_pc, rpc_call, stray>>
    /\ UNCHANGED <<st_pc, st_child, st_lines, st_elapsed>>
    /\ UNCHANGED <<seg_vars, pipe_vars, hk_vars>>
    /\ UNCHANGED wk_vars
    /\ UNCHANGED cmd_vars
    /\ UNCHANGED acc_vars
    /\ UNCHANGED reg_vars
    /\ UNCHANGED clip_vars
    /\ UNCHANGED db_vars
    /\ UNCHANGED det_vars
    /\ UNCHANGED lock_vars

\* The method returns and the guard of the mutex is dropped.
RpcReturn(c) ==
    /\ rpc_pc[c] = "returned"
    /\ engine_lock' = IF engine_lock = c THEN "none" ELSE engine_lock
    /\ rpc_pc' = [rpc_pc EXCEPT ![c] = "idle"]
    /\ rpc_call' = [rpc_call EXCEPT ![c] = NoCall]
    /\ UNCHANGED <<process, child, request_id, pipe_in, pipe_out, stray>>
    /\ UNCHANGED <<seg_vars, pipe_vars, hk_vars>>
    /\ UNCHANGED wk_vars
    /\ UNCHANGED cmd_vars
    /\ UNCHANGED acc_vars
    /\ UNCHANGED life_vars
    /\ UNCHANGED reg_vars
    /\ UNCHANGED clip_vars
    /\ UNCHANGED db_vars
    /\ UNCHANGED det_vars
    /\ UNCHANGED line_vars
    /\ UNCHANGED lock_vars

\* The sidecar answers the oldest request line with one line, of any body
\* and with the id of the request or another one.
SidecarRespond ==
    /\ child = "alive"
    /\ pipe_in # <<>>
    /\ \E body \in LineBodies, id \in {Head(pipe_in), 0} :
        pipe_out' = Append(pipe_out, [id |-> id, body |-> body])
    /\ pipe_in' = Tail(pipe_in)
    /\ UNCHANGED <<process, child, request_id, engine_lock, rpc_pc, rpc_call,
                   stray>>
    /\ UNCHANGED <<seg_vars, pipe_vars, hk_vars>>
    /\ UNCHANGED wk_vars
    /\ UNCHANGED cmd_vars
    /\ UNCHANGED acc_vars
    /\ UNCHANGED life_vars
    /\ UNCHANGED reg_vars
    /\ UNCHANGED clip_vars
    /\ UNCHANGED db_vars
    /\ UNCHANGED det_vars
    /\ UNCHANGED line_vars
    /\ UNCHANGED lock_vars

\* The sidecar writes a line nobody asked for.
SidecarStray ==
    /\ child = "alive"
    /\ stray < MaxStray
    /\ stray' = stray + 1
    /\ \E body \in LineBodies :
        pipe_out' = Append(pipe_out, [id |-> 0, body |-> body])
    /\ UNCHANGED <<process, child, request_id, engine_lock, rpc_pc, rpc_call,
                   pipe_in>>
    /\ UNCHANGED <<seg_vars, pipe_vars, hk_vars>>
    /\ UNCHANGED wk_vars
    /\ UNCHANGED cmd_vars
    /\ UNCHANGED acc_vars
    /\ UNCHANGED life_vars
    /\ UNCHANGED reg_vars
    /\ UNCHANGED clip_vars
    /\ UNCHANGED db_vars
    /\ UNCHANGED det_vars
    /\ UNCHANGED line_vars
    /\ UNCHANGED lock_vars

\* The sidecar process exits (crash, kill): what it had written stays
\* readable, the requests it had not taken are lost.
SidecarDies ==
    /\ child = "alive"
    /\ child' = "dead"
    /\ pipe_in' = <<>>
    /\ UNCHANGED <<process, request_id, engine_lock, rpc_pc, rpc_call,
                   pipe_out, stray>>
    /\ UNCHANGED <<seg_vars, pipe_vars, hk_vars>>
    /\ UNCHANGED wk_vars
    /\ UNCHANGED cmd_vars
    /\ UNCHANGED acc_vars
    /\ UNCHANGED life_vars
    /\ UNCHANGED reg_vars
    /\ UNCHANGED clip_vars
    /\ UNCHANGED db_vars
    /\ UNCHANGED det_vars
    /\ UNCHANGED line_vars
    /\ UNCHANGED lock_vars

RpcNext ==
    \/ \E c \in Callers : \E m \in MethodsOf(c) : RpcLock(c, m)
    \/ \E c \in Callers : RpcBegin(c)
    \/ \E c \in Callers : RpcWrite(c)
    \/ \E c \in Callers : RpcRead(c)
    \/ \E c \in Callers : RpcStart(c)
    \/ \E c \in Callers : RpcStop(c)
    \/ RpcDrop
    \/ \E c \in Callers : RpcReturn(c)
    \/ SidecarRespond
    \/ SidecarStray
    \/ SidecarDies

RpcInit ==
    /\ seg_cfg = [silence_ms |-> 1500, max_segment_sec |-> 60]
    /\ SegStart
    /\ NoDetector
    /\ NoPipeline
    /\ AppStateNew
    /\ ASREngineNew
    /\ NoRequestLine
    /\ NoLockTaken
    /\ WorkerNew
    /\ UiNew
    /\ FrameAccumulatorNew(1)
    /\ NoSidecarYet
    /\ DesktopNew

SpecRpc == RpcInit /\ [][RpcNext]_vars

\* ------------------------------------------------------------------------
\* ASREngine::start, statement by statement (SpecStart): the spawn and the
\* loop that waits for the ready line.  The caller holds the engine mutex
\* throughout, so that no other method runs meanwhile.
\* ------------------------------------------------------------------------

\* What a starting sidecar writes: the ready line, another status line,
\* and text that is not JSON.
StartLines == {"ready", "loading", "garbage"}

\* serde_json::from_str::<StatusResponse>(trimmed) is Ok and its status is
\* Some("ready").
IsReady(line) ==
    CASE line = "garbage" -> FALSE
      [] line = "loading" -> FALSE
      [] line = "ready"   -> TRUE

\* A line the handshake has left in the pipe, as a later read_line of an
\* RPC finds it: JSON with neither result nor error, or no JSON.
LeftOver(line) ==
    [id |-> 0, body |-> IF line = "garbage" THEN "garbage" ELSE "neither"]

\* start is called: with a handle in place Ok at once; else cmd.spawn(),
\* whose error is returned, and the clock of the timeout starts.
StartCall ==
    /\ st_pc = "idle"
    /\ IF process
       THEN /\ st_pc' = "ok"
            /\ UNCHANGED <<st_child, st_lines, st_elapsed>>
       ELSE \E spawned \in BOOLEAN :
            /\ st_pc' = IF spawned THEN "loop" ELSE "err"
            /\ st_child' = IF spawned THEN "alive" ELSE "none"
            /\ st_lines' = <<>>
            /\ st_elapsed' = FALSE
    /\ UNCHANGED last_stop
    /\ UNCHANGED <<seg_vars, pipe_vars, hk_vars>>
    /\ UNCHANGED rpc_vars
    /\ UNCHANGED wk_vars
    /\ UNCHANGED cmd_vars
    /\ UNCHANGED acc_vars
    /\ UNCHANGED reg_vars
    /\ UNCHANGED clip_vars
    /\ UNCHANGED db_vars
    /\ UNCHANGED det_vars
    /\ UNCHANGED line_vars
    /\ UNCHANGED lock_vars

\* The top of the loop: if start.elapsed() > timeout, kill and return Err.
StartLoopTop ==
    /\ st_pc = "loop"
    /\ IF st_elapsed
       THEN /\ st_pc' = "err"
            /\ st_child' = IF st_child = "alive" THEN "killed" ELSE st_child
       ELSE /\ st_pc' = "read"
            /\ st_child' = st_child
    /\ UNCHANGED <<last_stop, st_lines, st_elapsed>>
    /\ UNCHANGED <<seg_vars, pipe_vars, hk_vars>>
    /\ UNCHANGED rpc_vars
    /\ UNCHANGED wk_vars
    /\ UNCHANGED cmd_vars
    /\ UNCHANGED acc_vars
    /\ UNCHANGED reg_vars
    /\ UNCHANGED clip_vars
    /\ UNCHANGED db_vars
    /\ UNCHANGED det_vars
    /\ UNCHANGED line_vars
    /\ UNCHANGED lock_vars

\* stdout_reader.read_line(&mut line) on the blocking pipe returns: with
\* the next line (ready: the handle is stored and start returns Ok; any
\* other line: back to the top of the loop), or with Ok(0) when the pipe
\* is empty and closed, after which kill and Err.  With the pipe empty and
\* the child alive it does not return.
StartReadLine ==
    /\ st_pc = "read"
    /\ \/ /\ st_lines # <<>>
          /\ st_lines' = Tail(st_lines)
          /\ IF IsReady(Head(st_lines))
             THEN /\ st_pc' = "ok"
                  /\ process' = TRUE
                  /\ child' = IF st_child = "alive" THEN "alive" ELSE "dead"
                  /\ pipe_out' = [i \in 1..Len(Tail(st_lines)) |->
                                     LeftOver(Tail(st_lines)[i])]
             ELSE /\ st_pc' = "loop"
                  /\ UNCHANGED <<process, child, pipe_out>>
          /\ st_child' = st_child
       \/ /\ st_lines = <<>>
          /\ st_child # "alive"
          /\ st_pc' = "err"
          /\ UNCHANGED <<st_lines, st_child, process, child, pipe_out>>
    /\ UNCHANGED <<last_stop, st_elapsed>>
    /\ UNCHANGED <<request_id, engine_lock, rpc_pc, rpc_call, pipe_in, stray>>
    /\ UNCHANGED <<seg_vars, pipe_vars, hk_vars>>
    /\ UNCHANGED wk_vars
    /\ UNCHANGED cmd_vars
    /\ UNCHANGED acc_vars
    /\ UNCHANGED reg_vars
    /\ UNCHANGED clip_vars
    /\ UNCHANGED db_vars
    /\ UNCHANGED det_vars
    /\ UNCHANGED line_vars
    /\ UNCHANGED lock_vars

\* read_line returns an error (other than WouldBlock, which a blocking
\* pipe does not give): kill and Err.
StartReadFails ==
    /\ st_pc = "read"
    /\ st_pc' = "err"
    /\ st_child' = IF st_child = "alive" THEN "killed" ELSE st_child
    /\ UNCHANGED <<last_stop, st_lines, st_elapsed>>
    /\ UNCHANGED <<seg_vars, pipe_vars, hk_vars>>
    /\ UNCHANGED rpc_vars
    /\ UNCHANGED wk_vars
    /\ UNCHANGED cmd_vars
    /\ UNCHANGED acc_vars
    /\ UNCHANGED reg_vars
    /\ UNCHANGED clip_vars
    /\ UNCHANGED db_vars
    /\ UNCHANGED det_vars
    /\ UNCHANGED line_vars
    /\ UNCHANGED lock_vars

\* start has returned; its locals are gone.
StartReturn ==
    /\ st_pc \in {"ok", "err"}
    /\ st_pc' = "idle"
    /\ st_child' = "none"
    /\ st_lines' = <<>>
    /\ st_elapsed' = FALSE
    /\ UNCHANGED last_stop
    /\ UNCHANGED <<seg_vars, pipe_vars, hk_vars>>
    /\ UNCHANGED rpc_vars
    /\ UNCHANGED wk_vars
    /\ UNCHANGED cmd_vars
    /\ UNCHANGED acc_vars
    /\ UNCHANGED reg_vars
    /\ UNCHANGED clip_vars
    /\ UNCHANGED db_vars
    /\ UNCHANGED det_vars
    /\ UNCHANGED line_vars
    /\ UNCHANGED lock_vars

\* Sixty seconds have passed since the spawn.
StartTimeoutElapses ==
    /\ st_pc \in {"loop", "read"}
    /\ ~st_elapsed
    /\ st_elapsed' = TRUE
    /\ UNCHANGED <<last_stop, st_pc, st_child, st_lines>>
    /\ UNCHANGED <<seg_vars, pipe_vars, hk_vars>>
    /\ UNCHANGED rpc_vars
    /\ UNCHANGED wk_vars
    /\ UNCHANGED cmd_vars
    /\ UNCHANGED acc_vars
    /\ UNCHANGED reg_vars
    /\ UNCHANGED clip_vars
    /\ UNCHANGED db_vars
    /\ UNCHANGED det_vars
    /\ UNCHANGED line_vars
    /\ UNCHANGED lock_vars

\* The starting sidecar writes a line to its stdout.
StartingSidecarWrites ==
    /\ st_child = "alive"
    /\ st_pc \in {"loop", "read"}
    /\ Len(st_lines) < MaxStartLines
    /\ \E line \in StartLines : st_lines' = Append(st_lines, line)
    /\ UNCHANGED <<last_stop, st_pc, st_child, st_elapsed>>
    /\ UNCHANGED <<seg_vars, pipe_vars, hk_vars>>
    /\ UNCHANGED rpc_vars
    /\ UNCHANGED wk_vars
    /\ UNCHANGED cmd_vars
    /\ UNCHANGED acc_vars
    /\ UNCHANGED reg_vars
    /\ UNCHANGED clip_vars
    /\ UNCHANGED db_vars
    /\ UNCHANGED det_vars
    /\ UNCHANGED line_vars
    /\ UNCHANGED lock_vars

\* The starting sidecar exits (a crash, a missing model): its stdout is
\* closed, what it had written stays readable.
StartingSidecarExits ==
    /\ st_child = "alive"
    /\ st_pc \in {"loop", "read"}
    /\ st_child' = "exited"
    /\ UNCHANGED <<last_stop, st_pc, st_lines, st_elapsed>>
    /\ UNCHANGED <<seg_vars, pipe_vars, hk_vars>>
    /\ UNCHANGED rpc_vars
    /\ UNCHANGED wk_vars
    /\ UNCHANGED cmd_vars
    /\ UNCHANGED acc_vars
    /\ UNCHANGED reg_vars
    /\ UNCHANGED clip_vars
    /\ UNCHANGED db_vars
    /\ UNCHANGED det_vars
    /\ UNCHANGED line_vars
    /\ UNCHANGED lock_vars

\* The sidecar of the handle is stopped (ASREngine::stop), so that start
\* has work to do again.
StartedSidecarStopped ==
    /\ st_pc = "idle"
    /\ process
    /\ process' = FALSE
    /\ child' = "none"
    /\ pipe_out' = <<>>
    /\ last_written' = AfterQuit(process, child)
    /\ last_stop' = [by |-> "stop", had_handle |-> TRUE, ops |-> StopOps(TRUE)]
    /\ UNCHANGED <<st_pc, st_child, st_lines, st_elapsed>>
    /\ UNCHANGED <<request_id, engine_lock, rpc_pc, rpc_call, pipe_in, stray>>
    /\ UNCHANGED <<seg_vars, pipe_vars, hk_vars>>
    /\ UNCHANGED wk_vars
    /\ UNCHANGED cmd_vars
    /\ UNCHANGED acc_vars
    /\ UNCHANGED reg_vars
    /\ UNCHANGED clip_vars
    /\ UNCHANGED db_vars
    /\ UNCHANGED det_vars
    /\ UNCHANGED lock_vars

\* The steps of the caller of start that no failure of the system is
\* needed for.
StartSteps ==
    \/ StartCall
    \/ StartLoopTop
    \/ StartReadLine
    \/ StartReturn

StartNext ==
    \/ StartSteps
    \/ StartReadFails
    \/ StartTimeoutElapses
    \/ StartingSidecarWrites
    \/ StartingSidecarExits
    \/ StartedSidecarStopped

\* The thread that called start runs on as long as it is not blocked, and
\* time passes; nothing makes a sidecar write or exit, or a read fail.
SpecStart ==
    /\ RpcInit
    /\ [][StartNext]_vars
    /\ WF_vars(StartSteps)
    /\ WF_vars(StartTimeoutElapses)

\* ------------------------------------------------------------------------
\* Hotkey registration (handy_keys.rs: validate_hotkey, register_hotkey,
\* the manager thread)
\* ------------------------------------------------------------------------
\* A hotkey string is a sequence of characters.  A character is written as
\* a one-letter string; "eacute" stands for the letter e with an acute
\* accent, which is one character of two bytes in UTF-8.

\* char::to_lowercase for the letters used here.
LowerChar(c) ==
    CASE c = "A" -> "a"
      [] c = "F" -> "f"
      [] c = "Z" -> "z"
      [] OTHER -> c

\* str::to_lowercase
ToLowercase(s) == [i \in 1..Len(s) |-> LowerChar(s[i])]

Digits == <<"0", "1", "2", "3", "4", "5", "6", "7", "8", "9">>

Letters == {"a", "b", "c", "d", "e", "f", "h", "i", "l", "m", "n", "o", "p",
            "r", "s", "t", "u", "z", "A", "F", "Z", "eacute"}

IsDigit(c) == \E d \in 1..10 : Digits[d] = c

\* char::is_alphanumeric
IsAlphanumeric(c) == c \in Letters \/ IsDigit(c)

\* The number of bytes of a character in UTF-8.
Utf8Len(c) == IF c = "eacute" THEN 2 ELSE 1

RECURSIVE ByteLen(_)
\* str::len: the length in bytes.
ByteLen(s) == IF s = <<>> THEN 0 ELSE Utf8Len(Head(s)) + ByteLen(Tail(s))

RECURSIVE SplitPlus(_)
\* str::split('+'): the pieces between the plus signs, empty ones included.
SplitPlus(s) ==
    IF \A i \in 1..Len(s) : s[i] # "+" THEN <<s>>
    ELSE LET i == CHOOSE j \in 1..Len(s) :
                      s[j] = "+" /\ \A k \in 1..(j - 1) : s[k] # "+"
         IN  <<SubSeq(s, 1, i - 1)>> \o SplitPlus(SubSeq(s, i + 1, Len(s)))

RECURSIVE DigitsValue(_)
\* The value of a sequence of decimal digits.
DigitsValue(s) ==
    IF s = <<>> THEN 0
    ELSE 10 * DigitsValue(SubSeq(s, 1, Len(s) - 1))
         + ((CHOOSE d \in 1..10 : Digits[d] = s[Len(s)]) - 1)

\* str::parse::<u32>: an optional plus sign, then one digit or more; -1
\* stands for Err.
ParseU32(s) ==
    LET body == IF s # <<>> /\ Head(s) = "+" THEN Tail(s) ELSE s
    IN  IF body # <<>> /\ \A i \in 1..Len(body) : IsDigit(body[i])
        THEN DigitsValue(body)
        ELSE -1

allowed_standalone ==
    { <<"f", "n">>,
      <<"p", "r", "i", "n", "t", "s", "c", "r", "e", "e", "n">>,
      <<"s", "c", "r", "o", "l", "l", "l", "o", "c", "k">>,
      <<"p", "a", "u", "s", "e">>,
      <<"i", "n", "s", "e", "r", "t">> }

disallowed_standalone ==
    { <<"s", "p", "a", "c", "e">>, <<"r", "e", "t", "u", "r", "n">>,
      <<"e", "n", "t", "e", "r">>, <<"t", "a", "b">>,
      <<"e", "s", "c", "a", "p", "e">>,
      <<"b", "a", "c", "k", "s", "p", "a", "c", "e">>,
      <<"d", "e", "l", "e", "t", "e">>, <<"u", "p">>, <<"d", "o", "w", "n">>,
      <<"l", "e", "f", "t">>, <<"r", "i", "g", "h", "t">>,
      <<"h", "o", "m", "e">>, <<"e", "n", "d">>,
      <<"p", "a", "g", "e", "u", "p">>,
      <<"p", "a", "g", "e", "d", "o", "w", "n">> }

\* validate_hotkey: "Ok" or "Err".
validate_hotkey(hotkey) ==
    LET parts == SplitPlus(ToLowercase(hotkey))
        key == Trim(parts[1])
        n == ParseU32(Tail(key))
    IN  IF Len(parts) # 1 THEN "Ok"
        ELSE IF key # <<>> /\ Head(key) = "f" /\ n >= 1 /\ n <= 24 THEN "Ok"
        ELSE IF key \in allowed_standalone THEN "Ok"
        ELSE IF ByteLen(key) = 1 /\ IsAlphanumeric(Head(key)) THEN "Err"
        ELSE IF key \in disallowed_standalone THEN "Err"
        ELSE "Ok"

\* The hotkey strings the UI passes to register_hotkey.
Hotkeys ==
    { <<"a">>, <<"Z">>, <<"7">>, <<"f">>, <<";">>, <<" ">>, <<"+">>,
      <<"eacute">>,
      <<"s", "p", "a", "c", "e">>, <<"t", "a", "b">>,
      <<"F", "7">>, <<"f", "1">>, <<"f", "2", "4">>, <<"f", "2", "5">>,
      <<"f", "n">>, <<"p", "a", "u", "s", "e">>,
      <<"c", "m", "d", "+", "s", "p", "a", "c", "e">>,
      <<"c", "t", "r", "l", "+", "s", "h", "i", "f", "t", "+", "a">> }

\* register_hotkey(hotkey), the whole call: validate_hotkey, then the
\* Register command, which the manager thread serves while the caller
\* waits for the response.  The thread unregisters the hotkey it has,
\* then parses the string and registers the result with the OS; both are
\* the work of the handy-keys crate and either can fail (registered says
\* whether both went well).
RegisterHotkey(hotkey, registered) ==
    /\ reg_ret' = [op |-> "register", hotkey |-> hotkey,
                   ret |-> IF validate_hotkey(hotkey) = "Err" THEN "invalid"
                           ELSE IF registered THEN "ok" ELSE "failed",
                   before |-> current_hotkey]
    /\ current_hotkey' =
           IF validate_hotkey(hotkey) = "Err" THEN current_hotkey
           ELSE IF registered THEN <<"Some", hotkey>>
           ELSE NoHotkey
    /\ UNCHANGED <<seg_vars, pipe_vars, hk_vars>>
    /\ UNCHANGED rpc_vars
    /\ UNCHANGED wk_vars
    /\ UNCHANGED cmd_vars
    /\ UNCHANGED acc_vars
    /\ UNCHANGED life_vars
    /\ UNCHANGED clip_vars
    /\ UNCHANGED db_vars
    /\ UNCHANGED det_vars
    /\ UNCHANGED line_vars
    /\ UNCHANGED lock_vars

\* unregister_hotkey, the whole call: the manager thread takes its hotkey.
UnregisterHotkey ==
    /\ reg_ret' = [op |-> "unregister", hotkey |-> <<>>, ret |-> "ok",
                   before |-> current_hotkey]
    /\ current_hotkey' = NoHotkey
    /\ UNCHANGED <<seg_vars, pipe_vars, hk_vars>>
    /\ UNCHANGED rpc_vars
    /\ UNCHANGED wk_vars
    /\ UNCHANGED cmd_vars
    /\ UNCHANGED acc_vars
    /\ UNCHANGED life_vars
    /\ UNCHANGED clip_vars
    /\ UNCHANGED db_vars
    /\ UNCHANGED det_vars
    /\ UNCHANGED line_vars
    /\ UNCHANGED lock_vars

RegisterNext ==
    \/ \E hotkey \in Hotkeys, registered \in BOOLEAN :
           RegisterHotkey(hotkey, registered)
    \/ UnregisterHotkey

SpecRegister == HotkeyInit /\ [][RegisterNext]_vars

(***************************************************************************)
(* Hotkey strings as the specification sorts them.                         *)
(***************************************************************************)
PrintableChars ==
    Letters \cup {Digits[d] : d \in 1..10} \cup {";", "+", " "}

TypingKeyNames ==
    { <<"s", "p", "a", "c", "e">>, <<"t", "a", "b">>,
      <<"e", "n", "t", "e", "r">>, <<"r", "e", "t", "u", "r", "n">> }

\* One printable key and no modifier.
SinglePrintableKey(hotkey) ==
    \/ Len(hotkey) = 1 /\ hotkey[1] \in PrintableChars
    \/ ToLowercase(hotkey) \in TypingKeyNames

RECURSIVE Decimal(_)
\* A number in decimal digits.
Decimal(n) ==
    IF n < 10 THEN <<Digits[n + 1]>>
    ELSE Decimal(n \div 10) \o <<Digits[(n % 10) + 1]>>

\* F1 ... F24
FunctionKey(hotkey) ==
    \E n \in 1..24 : ToLowercase(hotkey) = <<"f">> \o Decimal(n)

ModifierNames ==
    { <<"c", "m", "d">>, <<"c", "t", "r", "l">>, <<"s", "h", "i", "f", "t">>,
      <<"o", "p", "t", "i", "o", "n">> }

\* A combination of keys, one of them a modifier.
HasModifier(hotkey) ==
    LET parts == SplitPlus(ToLowercase(hotkey))
    IN  Len(parts) > 1 /\ \E i \in 1..Len(parts) : parts[i] \in ModifierNames

\* C26: register_hotkey refuses every single printable key without a
\* modifier and leaves the registration as it was, and it does not refuse
\* F1...F24, the allowed standalone keys and combinations with a modifier.
C26_SinglePrintableKeysRejected ==
    reg_ret.op = "register" =>
        /\ SinglePrintableKey(reg_ret.hotkey) =>
               reg_ret.ret = "invalid" /\ current_hotkey = reg_ret.before
        /\ (\/ FunctionKey(reg_ret.hotkey)
            \/ ToLowercase(reg_ret.hotkey) \in allowed_standalone
            \/ HasModifier(reg_ret.hotkey)) => reg_ret.ret # "invalid"

\* ------------------------------------------------------------------------
\* Paste with clipboard preservation (clipboard.rs: paste_with_restore)
\* ------------------------------------------------------------------------

\* What the system clipboard can hold when paste_with_restore is called.
ClipboardContents ==
    { ClipText(""), ClipText("X"), ClipText("Y"),
      [kind |-> "image", text |-> ""] }

\* The texts that are pasted.
PasteTexts == {"hello", "bye", "X"}

\* get_clipboard_text(app).unwrap_or_default(): the text of the clipboard,
\* and the empty string when read_text fails (no text on the clipboard).
OriginalText(c) == IF c.kind = "text" THEN c.text ELSE ""

\* The steps paste_with_restore takes, given which of them go well: the
\* write and the paste return early with `?`, the restore is skipped for
\* an empty original.
PasteSteps(original, write_ok, paste_ok, restore_ok) ==
    <<"read", "write">>
    \o (IF write_ok THEN <<"paste">> ELSE <<>>)
    \o (IF write_ok /\ paste_ok /\ original # "" THEN <<"restore">> ELSE <<>>)

\* paste_with_restore(app, text, enigo_state), the whole call.
PasteWithRestore(text, write_ok, paste_ok, restore_ok) ==
    LET original == OriginalText(clipboard)
        restores == write_ok /\ paste_ok /\ original # ""
    IN  /\ clipboard' =
               IF ~write_ok THEN clipboard
               ELSE IF restores /\ restore_ok THEN ClipText(original)
               ELSE ClipText(text)
        /\ received' = IF write_ok /\ paste_ok THEN text ELSE received
        /\ paste_ret' =
               [op |-> "paste", text |-> text, before |-> clipboard,
                ret |-> IF write_ok /\ paste_ok /\ (restores => restore_ok)
                        THEN "Ok" ELSE "Err",
                steps |-> PasteSteps(original, write_ok, paste_ok,
                                     restore_ok),
                pasted |-> write_ok /\ paste_ok]
    /\ UNCHANGED <<seg_vars, pipe_vars, hk_vars>>
    /\ UNCHANGED rpc_vars
    /\ UNCHANGED wk_vars
    /\ UNCHANGED cmd_vars
    /\ UNCHANGED acc_vars
    /\ UNCHANGED life_vars
    /\ UNCHANGED reg_vars
    /\ UNCHANGED db_vars
    /\ UNCHANGED det_vars
    /\ UNCHANGED line_vars
    /\ UNCHANGED lock_vars

\* The user, or another application, puts something on the clipboard.
UserCopies(c) ==
    /\ clipboard # c
    /\ clipboard' = c
    /\ paste_ret' = NoPasteCall
    /\ UNCHANGED received
    /\ UNCHANGED <<seg_vars, pipe_vars, hk_vars>>
    /\ UNCHANGED rpc_vars
    /\ UNCHANGED wk_vars
    /\ UNCHANGED cmd_vars
    /\ UNCHANGED acc_vars
    /\ UNCHANGED life_vars
    /\ UNCHANGED reg_vars
    /\ UNCHANGED db_vars
    /\ UNCHANGED det_vars
    /\ UNCHANGED line_vars
    /\ UNCHANGED lock_vars

PasteNext ==
    \/ \E text \in PasteTexts, write_ok, paste_ok, restore_ok \in BOOLEAN :
           PasteWithRestore(text, write_ok, paste_ok, restore_ok)
    \/ \E c \in ClipboardContents : UserCopies(c)

SpecPaste == HotkeyInit /\ [][PasteNext]_vars

\* C27: when paste_with_restore has returned, the clipboard holds what it
\* held before the call, whatever that was and however the call went, and
\* the call has read the original, written the new text, sent the paste and
\* restored the original, in this order, as far as it came.
C27_ClipboardRestored ==
    paste_ret.op = "paste" =>
        /\ clipboard = paste_ret.before
        /\ \E k \in 0..4 :
               paste_ret.steps = SubSeq(<<"read", "write", "paste", "restore">>,
                                        1, k)

\* ------------------------------------------------------------------------
\* The history store (database.rs: TranscriptionDb over SQLite with an
\* FTS5 trigram index)
\* ------------------------------------------------------------------------
\* A text is a sequence of characters; an Option is <<>> for None and
\* <<x>> for Some(x); a duration is given in tenths of a second.

\* The entries the worker and the tests hand to insert; id is None and
\* created_at the empty string.
Entries ==
    { [id |-> <<>>, created_at |-> <<>>, duration_seconds |-> <<25>>,
       text |-> <<"a", "b", "c">>, language |-> <<"English">>],
      [id |-> <<>>, created_at |-> <<>>, duration_seconds |-> <<>>,
       text |-> <<"c", "a", "b", " ", "a", "b", "c">>, language |-> <<>>],
      [id |-> <<>>, created_at |-> <<>>, duration_seconds |-> <<600>>,
       text |-> <<"eacute", "eacute", "b">>, language |-> <<"Japanese">>] }

\* The queries the UI passes to search.
Queries ==
    { <<"a", "b">>, <<"a", "b", "c">>, <<"b", "c", "a">>,
      <<"a", "b", "c", " ", "c", "a", "b">>,
      <<"eacute", "eacute">>, <<"%">>, <<"a", "_">>, <<"a", "b", "%">> }

\* limit and offset as the UI passes them (20 and 0 when it gives none).
Pagings == { [limit |-> U32(0, 20), offset |-> U32(0, 0)] }

\* limit and offset as they are passed to get_all: the UI can pass every
\* u32.
GetAllPagings ==
    Pagings \cup { [limit |-> U32(0, 1), offset |-> U32(0, 1)],
                   [limit |-> U32Max, offset |-> U32(0, 1)] }

\* The program as built: arithmetic on u32 panics on overflow in a debug
\* build and wraps around in a release build.
Builds == {"debug", "release"}

\* datetime('now', 'localtime') at second now: a text of 19 characters,
\* written here as a pair.
Datetime(now) == <<"datetime", now>>

\* text contains q as a substring.
Contains(text, q) ==
    \E i \in 1..(Len(text) + 1) :
        /\ i + Len(q) - 1 <= Len(text)
        /\ SubSeq(text, i, i + Len(q) - 1) = q

RECURSIVE LikeMatch(_, _)
\* The LIKE operator of SQLite without ESCAPE: % stands for any run of
\* characters, _ for one character, letters of ASCII match in either case.
LikeMatch(pattern, text) ==
    IF pattern = <<>> THEN text = <<>>
    ELSE IF Head(pattern) = "%"
    THEN \/ LikeMatch(Tail(pattern), text)
         \/ text # <<>> /\ LikeMatch(pattern, Tail(text))
    ELSE IF Head(pattern) = "_"
    THEN text # <<>> /\ LikeMatch(Tail(pattern), Tail(text))
    ELSE /\ text # <<>>
         /\ LowerChar(Head(text)) = LowerChar(Head(pattern))
         /\ LikeMatch(Tail(pattern), Tail(text))

\* format!("%{}%", query)
LikePattern(query) == <<"%">> \o query \o <<"%">>

RECURSIVE Words(_)
\* The runs of characters other than white space.
Words(s) ==
    IF s = <<>> THEN <<>>
    ELSE IF Head(s) = " " THEN Words(Tail(s))
    ELSE LET n == IF \E i \in 1..Len(s) : s[i] = " "
                  THEN (CHOOSE i \in 1..Len(s) :
                            s[i] = " " /\ \A k \in 1..(i - 1) : s[k] # " ") - 1
                  ELSE Len(s)
         IN  <<SubSeq(s, 1, n)>> \o Words(SubSeq(s, n + 1, Len(s)))

\* An FTS5 query without quotes is a list of barewords: letters, digits,
\* underscore and characters outside ASCII; any other character is a
\* syntax error.
FtsSyntaxOk(query) ==
    \A i \in 1..Len(query) :
        query[i] = " " \/ query[i] = "_" \/ IsAlphanumeric(query[i])

\* text MATCH query with the trigram tokenizer: every bareword is a phrase,
\* the phrases are joined by AND, and a phrase is found where its trigrams
\* follow each other, which is where it is a substring (a phrase of fewer
\* than three characters has no trigram and is not found).
FtsMatch(query, text) ==
    \A w \in 1..Len(Words(query)) :
        /\ Len(Words(query)[w]) >= 3
        /\ Contains(ToLowercase(text), ToLowercase(Words(query)[w]))

\* row_to_entry
RowToEntry(row) ==
    [id |-> <<row.id>>, created_at |-> row.created_at,
     duration_seconds |-> row.duration_seconds, text |-> row.text,
     language |-> row.language]

\* The orders ORDER BY created_at DESC can give the rows in: rows of the
\* same second come in any order.
OrderedByCreatedAtDesc(rows) ==
    { s \in [1..Cardinality(rows) -> rows] :
        /\ \A i, j \in 1..Cardinality(rows) : i # j => s[i] # s[j]
        /\ \A i, j \in 1..Cardinality(rows) :
               i < j => s[i].created_at[2] >= s[j].created_at[2] }

\* LIMIT limit OFFSET offset
LimitOffset(s, paging) ==
    SubSeq(s, RowCount(paging.offset) + 1,
           Min(Len(s), RowCount(paging.offset) + RowCount(paging.limit)))

\* The HistoryPage built from the rows a SELECT gives and a total.
HistoryPage(s, total, paging) ==
    [entries |-> [i \in 1..Len(LimitOffset(s, paging)) |->
                      RowToEntry(LimitOffset(s, paging)[i])],
     total_count |-> total,
     has_more |-> U32Less(WrappingAdd(paging.offset, paging.limit), total)]

\* What an operation of the store returned.
DbRet(op, id, entry, query, path, ok, n, page, paging) ==
    [op |-> op, id |-> id, entry |-> entry, query |-> query, path |-> path,
     ok |-> ok, n |-> n, page |-> page, paging |-> paging]

\* What get_all and search can return for the rows s of their SELECT: the
\* page, or nothing when offset + limit overflows in a debug build and the
\* call panics.
PageRet(op, query, path, s, total, paging) ==
    { IF Overflows(paging.offset, paging.limit) /\ build = "debug"
      THEN DbRet(op, 0, NoEntry, query, path, FALSE, 0, NoPage, paging)
      ELSE DbRet(op, 0, NoEntry, query, path, TRUE, 0,
                 HistoryPage(s, total, paging), paging) : build \in Builds }

\* insert with the binding of language left out.
InsertWithoutLanguage(entry) ==
    /\ sqlite_sequence < MaxInserts
    /\ sqlite_sequence' = sqlite_sequence + 1
    /\ transcriptions' = transcriptions \cup
           { [id |-> sqlite_sequence + 1, created_at |-> Datetime(db_now),
              duration_seconds |-> entry.duration_seconds,
              text |-> entry.text, language |-> <<>>] }
    /\ transcriptions_fts' = transcriptions_fts \cup
           { [rowid |-> sqlite_sequence + 1, text |-> entry.text] }
    /\ db_log' = Append(db_log, [id |-> sqlite_sequence + 1, entry |-> entry])
    /\ db_ret' = DbRet("insert", sqlite_sequence + 1, entry, <<>>, "none",
                       TRUE, 0, NoPage, NoPaging)
    /\ UNCHANGED db_now
    /\ UNCHANGED <<seg_vars, pipe_vars, hk_vars>>
    /\ UNCHANGED rpc_vars
    /\ UNCHANGED wk_vars
    /\ UNCHANGED cmd_vars
    /\ UNCHANGED acc_vars
    /\ UNCHANGED life_vars
    /\ UNCHANGED reg_vars
    /\ UNCHANGED clip_vars
    /\ UNCHANGED det_vars
    /\ UNCHANGED line_vars
    /\ UNCHANGED lock_vars

\* insert(entry): the INSERT binds six columns and leaves id to
\* AUTOINCREMENT and created_at to its default; the trigger
\* transcriptions_ai adds the text to the index; last_insert_rowid is
\* returned.
Insert(entry) ==
    /\ sqlite_sequence < MaxInserts
    /\ sqlite_sequence' = sqlite_sequence + 1
    /\ transcriptions' = transcriptions \cup
           { [id |-> sqlite_sequence + 1, created_at |-> Datetime(db_now),
              duration_seconds |-> entry.duration_seconds,
              text |-> entry.text, language |-> entry.language] }
    /\ transcriptions_fts' = transcriptions_fts \cup
           { [rowid |-> sqlite_sequence + 1, text |-> entry.text] }
    /\ db_log' = Append(db_log, [id |-> sqlite_sequence + 1, entry |-> entry])
    /\ db_ret' = DbRet("insert", sqlite_sequence + 1, entry, <<>>, "none",
                       TRUE, 0, NoPage, NoPaging)
    /\ UNCHANGED db_now
    /\ UNCHANGED <<seg_vars, pipe_vars, hk_vars>>
    /\ UNCHANGED rpc_vars
    /\ UNCHANGED wk_vars
    /\ UNCHANGED cmd_vars
    /\ UNCHANGED acc_vars
    /\ UNCHANGED life_vars
    /\ UNCHANGED reg_vars
    /\ UNCHANGED clip_vars
    /\ UNCHANGED det_vars
    /\ UNCHANGED line_vars
    /\ UNCHANGED lock_vars

\* count()
Count == Cardinality(transcriptions)

\* get_all(limit, offset)
GetAll(paging) ==
    /\ \E s \in OrderedByCreatedAtDesc(transcriptions) :
           db_ret' \in PageRet("get_all", <<>>, "none", s, Count, paging)
    /\ UNCHANGED <<transcriptions, transcriptions_fts, sqlite_sequence,
                   db_now, db_log>>
    /\ UNCHANGED <<seg_vars, pipe_vars, hk_vars>>
    /\ UNCHANGED rpc_vars
    /\ UNCHANGED wk_vars
    /\ UNCHANGED cmd_vars
    /\ UNCHANGED acc_vars
    /\ UNCHANGED life_vars
    /\ UNCHANGED reg_vars
    /\ UNCHANGED clip_vars
    /\ UNCHANGED det_vars
    /\ UNCHANGED line_vars
    /\ UNCHANGED lock_vars

\* The rows of the index a MATCH finds, and the rows of the table joined
\* to them.
FtsRows(query) == { f \in transcriptions_fts : FtsMatch(query, f.text) }

FtsJoin(query) ==
    { t \in transcriptions : \E f \in FtsRows(query) : f.rowid = t.id }

\* The rows of the table a LIKE finds.
LikeRows(query) ==
    { t \in transcriptions : LikeMatch(LikePattern(query), t.text) }

\* search(query, limit, offset): MATCH on the index for a query of three
\* characters or more (a query that is not FTS5 syntax makes the statement
\* fail), LIKE '%query%' on the table otherwise.
Search(query, paging) ==
    /\ IF Len(query) >= 3
       THEN IF FtsSyntaxOk(query)
            THEN \E s \in OrderedByCreatedAtDesc(FtsJoin(query)) :
                     db_ret' \in PageRet("search", query, "fts", s,
                                         Cardinality(FtsRows(query)), paging)
            ELSE db_ret' = DbRet("search", 0, NoEntry, query, "fts", FALSE,
                                 0, NoPage, paging)
       ELSE \E s \in OrderedByCreatedAtDesc(LikeRows(query)) :
                db_ret' \in PageRet("search", query, "like", s,
                                    Cardinality(LikeRows(query)), paging)
    /\ UNCHANGED <<transcriptions, transcriptions_fts, sqlite_sequence,
                   db_now, db_log>>
    /\ UNCHANGED <<seg_vars, pipe_vars, hk_vars>>
    /\ UNCHANGED rpc_vars
    /\ UNCHANGED wk_vars
    /\ UNCHANGED cmd_vars
    /\ UNCHANGED acc_vars
    /\ UNCHANGED life_vars
    /\ UNCHANGED reg_vars
    /\ UNCHANGED clip_vars
    /\ UNCHANGED det_vars
    /\ UNCHANGED line_vars
    /\ UNCHANGED lock_vars

\* count(), called by the tests.
CountCall ==
    /\ db_ret' = DbRet("count", 0, NoEntry, <<>>, "none", TRUE, Count, NoPage, NoPaging)
    /\ UNCHANGED <<transcriptions, transcriptions_fts, sqlite_sequence,
                   db_now, db_log>>
    /\ UNCHANGED <<seg_vars, pipe_vars, hk_vars>>
    /\ UNCHANGED rpc_vars
    /\ UNCHANGED wk_vars
    /\ UNCHANGED cmd_vars
    /\ UNCHANGED acc_vars
    /\ UNCHANGED life_vars
    /\ UNCHANGED reg_vars
    /\ UNCHANGED clip_vars
    /\ UNCHANGED det_vars
    /\ UNCHANGED line_vars
    /\ UNCHANGED lock_vars

\* delete with the trigger transcriptions_ad left out.
DeleteWithoutTrigger(entry_id) ==
    /\ transcriptions' = { t \in transcriptions : t.id # entry_id }
    /\ db_ret' = DbRet("delete", entry_id, NoEntry, <<>>, "none", TRUE,
                       Cardinality({ t \in transcriptions : t.id = entry_id }),
                       NoPage, NoPaging)
    /\ UNCHANGED <<transcriptions_fts, sqlite_sequence, db_now, db_log>>
    /\ UNCHANGED <<seg_vars, pipe_vars, hk_vars>>
    /\ UNCHANGED rpc_vars
    /\ UNCHANGED wk_vars
    /\ UNCHANGED cmd_vars
    /\ UNCHANGED acc_vars
    /\ UNCHANGED life_vars
    /\ UNCHANGED reg_vars
    /\ UNCHANGED clip_vars
    /\ UNCHANGED det_vars
    /\ UNCHANGED line_vars
    /\ UNCHANGED lock_vars

\* delete(entry_id): the DELETE, the trigger transcriptions_ad for every
\* row it removes; n is the number of rows, and rows > 0 is returned.
Delete(entry_id) ==
    /\ transcriptions' = { t \in transcriptions : t.id # entry_id }
    /\ transcriptions_fts' =
           transcriptions_fts \ { [rowid |-> t.id, text |-> t.text] :
                                     t \in { u \in transcriptions :
                                                u.id = entry_id } }
    /\ db_ret' = DbRet("delete", entry_id, NoEntry, <<>>, "none", TRUE,
                       Cardinality({ t \in transcriptions : t.id = entry_id }),
                       NoPage, NoPaging)
    /\ UNCHANGED <<sqlite_sequence, db_now, db_log>>
    /\ UNCHANGED <<seg_vars, pipe_vars, hk_vars>>
    /\ UNCHANGED rpc_vars
    /\ UNCHANGED wk_vars
    /\ UNCHANGED cmd_vars
    /\ UNCHANGED acc_vars
    /\ UNCHANGED life_vars
    /\ UNCHANGED reg_vars
    /\ UNCHANGED clip_vars
    /\ UNCHANGED det_vars
    /\ UNCHANGED line_vars
    /\ UNCHANGED lock_vars

\* delete_all(): every row goes, with the trigger for each; the number of
\* rows is returned.
DeleteAll ==
    /\ transcriptions' = {}
    /\ transcriptions_fts' =
           transcriptions_fts \ { [rowid |-> t.id, text |-> t.text] :
                                     t \in transcriptions }
    /\ db_ret' = DbRet("delete_all", 0, NoEntry, <<>>, "none", TRUE,
                       Cardinality(transcriptions), NoPage, NoPaging)
    /\ UNCHANGED <<sqlite_sequence, db_now, db_log>>
    /\ UNCHANGED <<seg_vars, pipe_vars, hk_vars>>
    /\ UNCHANGED rpc_vars
    /\ UNCHANGED wk_vars
    /\ UNCHANGED cmd_vars
    /\ UNCHANGED acc_vars
    /\ UNCHANGED life_vars
    /\ UNCHANGED reg_vars
    /\ UNCHANGED clip_vars
    /\ UNCHANGED det_vars
    /\ UNCHANGED line_vars
    /\ UNCHANGED lock_vars

\* A second passes on the clock of the machine.
DbSecondPasses ==
    /\ db_now < MaxClock
    /\ db_now' = db_now + 1
    /\ UNCHANGED <<transcriptions, transcriptions_fts, sqlite_sequence,
                   db_log, db_ret>>
    /\ UNCHANGED <<seg_vars, pipe_vars, hk_vars>>
    /\ UNCHANGED rpc_vars
    /\ UNCHANGED wk_vars
    /\ UNCHANGED cmd_vars
    /\ UNCHANGED acc_vars
    /\ UNCHANGED life_vars
    /\ UNCHANGED reg_vars
    /\ UNCHANGED clip_vars
    /\ UNCHANGED det_vars
    /\ UNCHANGED line_vars
    /\ UNCHANGED lock_vars

DbNext ==
    \/ \E entry \in Entries : Insert(entry)
    \/ \E paging \in GetAllPagings : GetAll(paging)
    \/ \E query \in Queries, paging \in Pagings : Search(query, paging)
    \/ CountCall
    \/ \E entry_id \in 1..MaxInserts : Delete(entry_id)
    \/ DeleteAll
    \/ DbSecondPasses

SpecDb == HotkeyInit /\ [][DbNext]_vars

\* The threads and mutexes of the application, from program start.
SpecLocks == HotkeyInit /\ [][LockNext]_vars

\* ------------------------------------------------------------------------
\* Properties of the segmenter
\* ------------------------------------------------------------------------

\* The number of 32 ms frames that cover silence_tail, max_segment and the
\* 300 ms pre-roll when rounded up.
CeilSilenceFrames ==
    CeilDiv(seg_cfg.silence_ms * VAD_SAMPLE_RATE, 1000 * VAD_FRAME_SIZE)

CeilMaxFrames ==
    CeilDiv(seg_cfg.max_segment_sec * VAD_SAMPLE_RATE, VAD_FRAME_SIZE)

CeilPreRollFrames ==
    CeilDiv(PRE_BUFFER_MS * VAD_SAMPLE_RATE, 1000 * VAD_FRAME_SIZE)

\* C2: a segment is returned by process only after at least
\* ceil(silence_tail / 32 ms) consecutive silence verdicts were observed, or
\* at least ceil(max_segment / 32 ms) frames were received since the onset.
C2_EmitOnlyAfterTailOrMax ==
    seg_ret.cause \in {"silence", "max"} =>
        \/ seg_ret.silence_run >= CeilSilenceFrames
        \/ seg_ret.speech_frames_seen >= CeilMaxFrames

\* C3: every returned segment, by any path, holds at least 8 000 samples and
\* at most max_segment x 16 000 samples, pre-roll included.
C3_SegmentLengthBounds ==
    seg_ret.index # 0 =>
        /\ 2 * TotalSamples(seg_ret.frames) >= VAD_SAMPLE_RATE
        /\ TotalSamples(seg_ret.frames)
               <= seg_cfg.max_segment_sec * VAD_SAMPLE_RATE

\* C4: while InSpeech the segment's audio is the last min(k, 10) frames
\* received while Idle before the onset (k of them were received), then the
\* onset frame once, then every later frame once, all in capture order.
C4_PreRollThenOnsetOnce ==
    vsm.is_speaking =>
        vsm.speech_frames =
            FrameRun(onset.frame - Min(onset.idle_before, CeilPreRollFrames),
                     nfed)

\* ------------------------------------------------------------------------
\* Properties of one pipeline
\* ------------------------------------------------------------------------

\* C5: when ContinuousPipeline::stop has returned, every segment the VAD
\* thread finalized has been dequeued and processed by the worker: no
\* segment_<n>.wav written in the session is left on disk.
C5_NoSegmentLostAtStop ==
    sup_pc = "stopped" => files = {}

\* C6: when the VAD thread ends while the pipeline is being stopped, it has
\* put exactly one segment into the segment channel if the segmenter was
\* InSpeech with at least 0.5 s (8 000 samples) of audio (and that audio
\* could be written to its WAV file), and none otherwise.
C6_StopFlushesOneSegment ==
    (vad_exit.how # "none" /\ vad_exit.stopping /\ ~vad_exit.wav_failed) =>
        vad_exit.flushed =
            IF vad_exit.speaking /\ 2 * vad_exit.samples >= VAD_SAMPLE_RATE
            THEN 1 ELSE 0

\* C7: once stop has returned, the streaming thread, the VAD thread and the
\* worker have all returned and no driver callback is running.
C7_StoppedMeansNoThreadAlive ==
    sup_pc = "stopped" =>
        /\ cap_pc = "done"
        /\ vad_pc = "done"
        /\ wk_pc = "done"
        /\ cb_pc = "idle"

\* A stop that was called while the segmenter was InSpeech and after the
\* worker had already persisted a segment has returned.
C7_Witness ==
    /\ sup_pc = "stopped"
    /\ vad_exit.how = "stop"
    /\ vad_exit.speaking
    /\ segment_count > 0

\* C10: the driver callback never waits on the frame channel: with the
\* channel full, push_samples drops the frame and returns.
C10_CallbackNeverWaits ==
    ~CallbackBlocked

\* ------------------------------------------------------------------------
\* Properties of the application
\* ------------------------------------------------------------------------

\* The streaming capture of some continuous pipeline is open.
ContinuousCapturing ==
    \/ Capturing(continuous_pipeline)
    \/ \E c \in Cycles : Capturing(rt_pipe[c])

\* C1: the continuous pipeline's streaming capture and the one-shot
\* recording are never active at the same time.
C1_OneCapturePathAtATime ==
    ~(current_recording /\ ContinuousCapturing)

Resumed(c) == \E i \in 1..Len(ev[c]) : ev[c][i] = "resume"

\* C8: when the release thread of a cycle whose key-down stopped a running
\* pipeline has ended, it has called ContinuousPipeline::start again.
C8_KeyUpResumesPipeline ==
    \A c \in Cycles : (paused[c] /\ rt_pc[c] = "done") => Resumed(c)

IsPrefix(s, t) == Len(s) <= Len(t) /\ s = SubSeq(t, 1, Len(s))

CycleEvents(c) ==
    IF rec_failed[c]
    THEN <<"recording", "idle", "transcribing", "idle", "resume">>
    ELSE <<"recording", "transcribing", "idle", "resume">>

FromALine == {"ok", "failed", "engine_error", "no_result", "parse_error", "eof"}

\* C11: in every call a line is read only after the request line of that
\* call was written, never more than one of each; a caller waiting for the
\* response has written exactly one line and read none, and a call that
\* returns what it made of a response has written one line and read one.
C11_OneWriteThenOneRead ==
    \A c \in Callers :
        /\ rpc_call[c].r <= rpc_call[c].w
        /\ rpc_call[c].w <= 1
        /\ rpc_pc[c] = "read" => rpc_call[c].w = 1 /\ rpc_call[c].r = 0
        /\ (rpc_pc[c] = "returned" /\ rpc_call[c].method \in RpcMethods
                /\ rpc_call[c].result \in FromALine) =>
               rpc_call[c].w = 1 /\ rpc_call[c].r = 1

\* The worker's transcribe has returned a result read from the sidecar.
C11_Witness ==
    /\ rpc_pc["worker"] = "returned"
    /\ rpc_call["worker"].method = "transcribe"
    /\ rpc_call["worker"].result = "ok"
    /\ rpc_call["worker"].w = 1
    /\ rpc_call["worker"].r = 1

\* C12: while a caller is between its request write and its response read
\* no other caller is inside a method of the engine, so no other request
\* line can be written; whoever is inside a method holds the mutex.
C12_ExchangesAreSequential ==
    \A c, d \in Callers :
        /\ rpc_pc[c] # "idle" => engine_lock = c
        /\ (rpc_pc[c] = "read" /\ d # c) => rpc_pc[d] = "idle"

\* The release thread waits for its response while the sidecar still holds
\* the request, after another exchange on the same sidecar.
C12_Witness ==
    /\ rpc_pc["release"] = "read"
    /\ rpc_call["release"].id >= 2
    /\ pipe_in = <<rpc_call["release"].id>>
    /\ rpc_pc["worker"] = "idle"
    /\ rpc_pc["ui"] = "idle"

\* C13: a call that ends with a protocol error (a line that is not JSON, a
\* line with neither result nor error, end of file) has dropped the
\* process handle when it returns.
C13_ProtocolErrorDropsHandle ==
    \A c \in Callers :
        (rpc_pc[c] = "returned"
            /\ rpc_call[c].result \in {"parse_error", "no_result", "eof"})
        => ~process

\* C14: a ping or transcribe whose try_wait finds the child exited returns
\* with the handle dropped and nothing written; a call that finds no handle
\* returns "not running" with nothing written and nothing read.
C14_ExitedChildDropsHandle ==
    \A c \in Callers :
        (rpc_pc[c] = "returned" /\ rpc_call[c].method \in RpcMethods) =>
            /\ rpc_call[c].result = "exited" =>
                   ~process /\ rpc_call[c].w = 0 /\ rpc_call[c].r = 0
            /\ rpc_call[c].found = "none" =>
                   /\ rpc_call[c].result = "not_running"
                   /\ rpc_call[c].w = 0
                   /\ rpc_call[c].r = 0

\* The worker's transcribe found the child exited.
C14_Witness ==
    /\ rpc_pc["worker"] = "returned"
    /\ rpc_call["worker"].result = "exited"
    /\ ~process

\* C15: start never returns Ok with the handle of a dead process left in
\* place.
C15_StartLeavesNoDeadHandle ==
    \A c \in Callers :
        (rpc_pc[c] = "returned" /\ rpc_call[c].method = "start"
            /\ rpc_call[c].result = "ok")
        => ~rpc_call[c].dead_handle

\* C16: a call returns a result only from a line that carries the id of
\* its request.
C16_ResultCarriesRequestId ==
    \A c \in Callers :
        (rpc_pc[c] = "returned" /\ rpc_call[c].method \in RpcMethods
            /\ rpc_call[c].result = "ok")
        => rpc_call[c].resp_id = rpc_call[c].id

\* ------------------------------------------------------------------------
\* Properties of the start of a pipeline
\* ------------------------------------------------------------------------

\* C17: a pipeline whose input device could not be opened is never in the
\* slot of AppState: its start returned the error instead.
C17_DeviceErrorReachesCaller ==
    continuous_pipeline # "failed"

\* ---------------------------------------------------------------------
\* Properties of the transcription worker, checked under SpecSession.
\* ---------------------------------------------------------------------

\* C18: a step in which the worker takes a segment from the channel calls
\* transcribe for it at most once, and never for a segment it called
\* transcribe for before; after the step the segment's file is gone,
\* whatever process_segment came to, and the worker is back at recv with
\* the rest of the channel before it.
C18_OneCallThenFileRemoved ==
    [][ taken' # taken =>
          LET seg == Head(seg_q).index
          IN  /\ taken' = Append(taken, seg)
              /\ \A i \in 1..Len(asr_log) : asr_log[i] # seg
              /\ asr_log' \in {asr_log, Append(asr_log, seg)}
              /\ seg \notin files'
              /\ seg_q' = Tail(seg_q)
              /\ wk_pc' = "recv" ]_vars

\* Two segments were taken; transcribe was called once for each; the first
\* was not persisted, the second was; neither file is left.
C18_Witness ==
    /\ Len(taken) = 2
    /\ asr_log = taken
    /\ Len(db_rows) = 1
    /\ db_rows[1].seg = taken[2]
    /\ taken[1] \notin files
    /\ taken[2] \notin files

\* C19: every row in the table and every event emitted belongs to a
\* response that succeeded, whose text is not empty after trimming, and
\* that does not carry no_speech = true.
C19_PersistedOnlyIfSpeech ==
    /\ \A i \in 1..Len(db_rows) :
          /\ db_rows[i].resp.kind = "ok"
          /\ db_rows[i].resp.success
          /\ Trim(db_rows[i].resp.text) # <<>>
          /\ db_rows[i].resp.no_speech # "true"
    /\ \A e \in 1..Len(events) :
          \E i \in 1..Len(db_rows) :
              /\ db_rows[i].id = events[e].id
              /\ db_rows[i].resp.no_speech # "true"

\* The indices of the segments in the order in which they leave the VAD
\* thread: those the worker has taken, then those still in the channel.
Detected == taken \o [k \in 1..Len(seg_q) |-> seg_q[k].index]

\* s is strictly increasing.
Increasing(s) == \A i, j \in 1..Len(s) : i < j => s[i] < s[j]

\* C20: the frames in the channel are the next frames in capture order
\* after those the VAD thread has received (it receives frame nfed + 1
\* next); the segments reach the worker in the order of their
\* indices; rows are inserted, and events emitted, in that order, a later
\* segment getting the larger id.
C20_OrderPreserved ==
    /\ \A i \in 1..Len(frame_q) : frame_q[i] = nfed + i
    /\ Increasing(Detected)
    /\ Increasing([i \in 1..Len(db_rows) |-> db_rows[i].seg])
    /\ Increasing([i \in 1..Len(db_rows) |-> db_rows[i].id])
    /\ Increasing([i \in 1..Len(events) |-> events[i].seg])
    /\ Increasing([i \in 1..Len(events) |-> events[i].id])
    /\ \A e \in 1..Len(events) :
          \E i \in 1..Len(db_rows) :
              db_rows[i].id = events[e].id /\ db_rows[i].seg = events[e].seg

\* Two segments were detected, both were persisted and both events were
\* emitted.
C20_Witness ==
    /\ Len(db_rows) = 2
    /\ Len(events) = 2
    /\ db_rows[1].seg < db_rows[2].seg

\* The step is the return of a stop that caller c made.
StopReturns(c) ==
    /\ rpc_pc[c] = "begin"
    /\ rpc_call[c].method = "stop"
    /\ rpc_pc'[c] = "returned"

\* The step is the drop of the engine.
EngineDropped == engine_lock # "dropped" /\ engine_lock' = "dropped"

C25_HandshakeTerminates ==
    /\ [](st_pc = "ok" => process)
    /\ [](st_pc = "err" => ~process /\ st_child # "alive")
    /\ (st_pc \in {"loop", "read"}) ~> (st_pc \in {"ok", "err"})

\* ---------------------------------------------------------------------
\* Properties of the FrameAccumulator, checked under SpecAccum.
\* ---------------------------------------------------------------------

\* Sample j of enqueued frame i is sample (i - 1) * 512 + j of the mono
\* input: the frames, one after the other, are the beginning of the input,
\* with nothing left out, repeated or out of place, and each is full.
FramesArePrefixOfInput ==
    \A i \in 1..Len(enqueued) :
        /\ Len(enqueued[i]) = STREAM_FRAME_SIZE
        /\ \A j \in 1..STREAM_FRAME_SIZE :
              enqueued[i][j] = 4 * ((i - 1) * STREAM_FRAME_SIZE + j) + 1

\* C23: every enqueued frame has exactly 512 mono samples, the enqueued
\* frames one after the other are a prefix of the downmixed input, and
\* after each callback the accumulator holds back fewer than 512 samples.
C23_FullFramesInOrderRestBelowOne ==
    /\ FramesArePrefixOfInput
    /\ Len(acc_samples) < STREAM_FRAME_SIZE

\* C22: the segments that leave the VAD thread in a session carry
\* strictly increasing indices, and the first of them carries 1.
C22_IndicesIncreaseFromOne ==
    /\ Increasing(Detected)
    /\ Detected # <<>> => Detected[1] = 1

\* ---------------------------------------------------------------------
\* Properties of the continuous-listening commands, checked under
\* SpecListen.
\* ---------------------------------------------------------------------

\* Everything but what the command returned.
ListenState == <<seg_vars, pipe_vars, hk_vars, rpc_vars, wk_vars>>

\* The threads, channels and counters of the pipeline, without the place
\* of the caller of stop.
PipelineState ==
    <<stop_flag, stop_msg, cap_pc, cb_pc, output_buffer, produced, frame_q,
      vad_pc, seg_q, wk_pc, segment_count, files, vad_exit>>

\* C21: a start_continuous_listening called with a pipeline in the slot
\* returns the error and changes nothing (no thread is spawned, the
\* pipeline in the slot stays as it is), and only such a call returns it; a
\* stop_continuous_listening called with an empty slot returns its error
\* and changes nothing; the second stop of a pipeline, the one Drop makes
\* after stop has returned, changes nothing of the pipeline.
C21_StartAndStopAreIdempotent ==
    [][ /\ (cmd_ret = "none" /\ cmd_ret' = "Already listening") =>
              continuous_pipeline # "none" /\ UNCHANGED ListenState
        /\ (cmd_ret = "none" /\ cmd_ret' \in {"started", "start failed"}) =>
              continuous_pipeline = "none"
        /\ (cmd_ret = "none" /\ cmd_ret' = "Not listening") =>
              continuous_pipeline = "none" /\ UNCHANGED ListenState
        /\ (sup_pc = "stopped" /\ sup_pc' # "stopped") =>
              stop_flag /\ UNCHANGED PipelineState ]_vars

\* A start was refused while the pipeline in the slot was capturing.
C21_Witness ==
    /\ cmd_ret = "Already listening"
    /\ continuous_pipeline # "none"
    /\ cap_pc = "playing"
    /\ produced > 0

\* ---------------------------------------------------------------------
\* Properties of the history store
\* ---------------------------------------------------------------------

\* The entry e, as read from the store, is the entry that insert was given
\* in l and for which it returned l.id.
ReadsBack(e, l) ==
    /\ e.id = <<l.id>>
    /\ e.text = l.entry.text
    /\ e.duration_seconds = l.entry.duration_seconds
    /\ e.language = l.entry.language
    /\ e.created_at # <<>>

Containing(query) ==
    { t.id : t \in { u \in transcriptions : Contains(u.text, query) } }

\* The ids of the entries of a page.
PageIds(page) == { page.entries[i].id[1] : i \in 1..Len(page.entries) }

\* C29: search takes the full-text path exactly for a query of three
\* characters or more and the substring path otherwise, and on either path
\* total_count counts, and the entries are, the stored entries whose text
\* contains the query.
C29_SearchFindsTheContainingEntries ==
    db_ret.op = "search" =>
        /\ db_ret.path = IF Len(db_ret.query) >= 3 THEN "fts" ELSE "like"
        /\ db_ret.ok
        /\ db_ret.page.total_count = Cardinality(Containing(db_ret.query))
        /\ PageIds(db_ret.page) \subseteq Containing(db_ret.query)
        /\ Len(db_ret.page.entries) = db_ret.page.total_count =>
               PageIds(db_ret.page) = Containing(db_ret.query)

\* The index holds the text of every row of the table and nothing else.
IndexInSync ==
    transcriptions_fts =
        { [rowid |-> t.id, text |-> t.text] : t \in transcriptions }

\* The entries of the page are rows of the table, and all of the rows in
\* rows when the page holds as many entries as it counts.
PageShows(page, rows) ==
    /\ page.total_count = Cardinality(rows)
    /\ \A i \in 1..Len(page.entries) :
           \E t \in rows : page.entries[i] = RowToEntry(t)
    /\ Len(page.entries) = page.total_count =>
           \A t \in rows : \E i \in 1..Len(page.entries) :
               page.entries[i] = RowToEntry(t)

\* What the last operation returned agrees with the table as it is.
ReflectsTable ==
    /\ IndexInSync
    /\ db_ret.op = "get_all" /\ db_ret.ok =>
           PageShows(db_ret.page, transcriptions)
    /\ db_ret.op = "count" => db_ret.n = Cardinality(transcriptions)
    /\ db_ret.op = "search" /\ db_ret.path = "like" /\ db_ret.ok =>
           PageShows(db_ret.page,
                     { t \in transcriptions :
                         LikeMatch(LikePattern(db_ret.query), t.text) })
    /\ db_ret.op = "search" /\ db_ret.path = "fts" /\ db_ret.ok =>
           PageShows(db_ret.page,
                     { t \in transcriptions : FtsMatch(db_ret.query, t.text) })

\* An operation of the store has returned in this step.
DbReturns(op) == db_ret'.op = op /\ db_now' = db_now

\* C30: after every operation search (on both paths), get_all and count
\* agree with the table as it is then; delete(id) returns true exactly when
\* there was a row with this id, and there is none afterwards; delete_all
\* returns the number of rows there were and leaves the table and the
\* index empty.
C30_StoreReflectsInsertsAndDeletes ==
    [][/\ ReflectsTable'
       /\ DbReturns("delete") =>
              /\ (db_ret'.n > 0) <=>
                     (\E t \in transcriptions : t.id = db_ret'.id)
              /\ \A t \in transcriptions' : t.id # db_ret'.id
              /\ \A t \in transcriptions :
                     t.id # db_ret'.id => t \in transcriptions'
       /\ DbReturns("delete_all") =>
              /\ db_ret'.n = Cardinality(transcriptions)
              /\ transcriptions' = {}
              /\ transcriptions_fts' = {}]_vars

\* An entry was inserted and deleted, and a search on the full-text path
\* for a part of its text has found nothing.
C30_Witness ==
    /\ db_ret.op = "search"
    /\ db_ret.path = "fts"
    /\ db_ret.ok
    /\ db_ret.page.total_count = 0
    /\ \E k \in 1..Len(db_log) :
           /\ Contains(db_log[k].entry.text, db_ret.query)
           /\ \A t \in transcriptions : t.id # db_log[k].id

\* min(limit, max(0, n - offset)) for a table of n rows.
PageLength(paging, n) ==
    Min(RowCount(paging.limit),
        IF n > RowCount(paging.offset) THEN n - RowCount(paging.offset) ELSE 0)

\* offset + limit < n, in numbers without a width (n is below 2^16).
SumBelow(paging, n) ==
    /\ paging.offset.hi = 0
    /\ paging.limit.hi = 0
    /\ paging.offset.lo + paging.limit.lo < n

\* C31: for every limit and offset get_all returns, over a table of n rows,
\* total_count = n, min(limit, max(0, n - offset)) entries and
\* has_more = (offset + limit < n), the sum taken without overflow.
C31_PagesOfGetAll ==
    db_ret.op = "get_all" =>
        /\ db_ret.ok
        /\ db_ret.page.total_count = Count
        /\ Len(db_ret.page.entries) = PageLength(db_ret.paging, Count)
        /\ db_ret.page.has_more = SumBelow(db_ret.paging, Count)

\* ---------------------------------------------------------------------
\* Properties of the stop of the pipeline
\* ---------------------------------------------------------------------

\* C32: when stop has returned, the three threads have ended and the count
\* it returned (segment_count, which no thread is left to change) is the
\* number of segments for which transcribe returned a success; in a session
\* in which transcribe never fails these are the segments it was called for.
C32_StopReturnsTheSuccesses ==
    sup_pc = "stopped" =>
        /\ cap_pc = "done" /\ vad_pc = "done" /\ wk_pc = "done"
        /\ segment_count = Len(asr_log)

\* C33: on stop the producer ends first, the VAD thread then takes every
\* frame left in the frame channel through the detector and the segmenter
\* before it flushes and returns, and the worker returns only after the
\* VAD thread has returned and the segment channel is empty.
C33_StopDrainsTheFrameQueue ==
    /\ (vad_pc = "done" /\ vad_exit.how = "stop") =>
           /\ cap_pc = "done"
           /\ frame_q = <<>>
    /\ (wk_pc = "done" /\ stop_flag) =>
           /\ vad_pc = "done"
           /\ seg_q = <<>>

\* ---------------------------------------------------------------------
\* Properties of the detector
\* ---------------------------------------------------------------------

\* C34: every step of the VAD thread that emits a segment (after a silence
\* tail, at the forced split, in the flush at stop) leaves the detector
\* reset, with no LSTM state left for the next frame it classifies, and the
\* segmenter idle with an empty pre-roll.
C34_DetectorResetAfterEachSegment ==
    [][files' # files =>
           /\ detector' = "fresh"
           /\ ~vsm'.is_speaking
           /\ vsm'.pre_buffer = <<>>]_vars

\* ---------------------------------------------------------------------
\* Properties of the request ids
\* ---------------------------------------------------------------------

\* C35: every request line written to a sidecar, the quit line of stop
\* included, carries an id greater than the id of the line written before
\* it, whichever sidecar that line went to.
C35_RequestIdsIncrease ==
    [][last_written' # last_written =>
           \/ last_written = <<>>
           \/ last_written'[1] > last_written[1]]_vars

\* ---------------------------------------------------------------------
\* Properties of the pipeline slot
\* ---------------------------------------------------------------------

\* The pipelines that ContinuousPipeline::start has returned and that were
\* not stopped: the one in the slot of the application state and the ones
\* the release threads hold before they store them.
PipelinesAlive ==
    (IF continuous_pipeline # "none" THEN 1 ELSE 0)
        + Cardinality({ c \in Cycles : rt_pipe[c] # "none" })

\* C36: under every interleaving of start_continuous_listening,
\* stop_continuous_listening, key-downs and the resume steps of the release
\* threads at most one continuous pipeline is alive, so that none runs
\* beside the one in the slot and none is put in the place of a running one.
C36_AtMostOnePipelineAlive == PipelinesAlive <= 1

\* commands::get_continuous_listening_status, which takes the lock of the
\* slot and reads it: is_listening is pipeline.is_some().
get_continuous_listening_status ==
    [is_listening |-> continuous_pipeline # "none",
     segment_count |-> IF continuous_pipeline # "none" THEN segment_count
                       ELSE 0]

\* C37: whenever the status command can run and reports is_listening, the
\* streaming thread, the VAD thread and the worker of the pipeline are
\* alive: a pipeline whose threads have returned on their own is not
\* reported as listening.
C37_ListeningMeansThreadsAlive ==
    (SlotLockFree /\ get_continuous_listening_status.is_listening) =>
        /\ cap_pc # "done"
        /\ vad_pc # "done"
        /\ wk_pc # "done"

\* ---------------------------------------------------------------------
\* Properties of the pairing of requests and responses
\* ---------------------------------------------------------------------

\* C38: no call returns a result it took from the response to an earlier
\* request: whatever happened to the calls before it, the line a call
\* makes its result of is not a line the sidecar wrote for one of them.
C38_NoStaleResponseConsumed ==
    \A c \in Callers :
        (rpc_pc[c] = "returned" /\ rpc_call[c].method \in RpcMethods
            /\ rpc_call[c].result = "ok")
        => ~(0 < rpc_call[c].resp_id
                /\ rpc_call[c].resp_id < rpc_call[c].id)

\* ---------------------------------------------------------------------
\* Properties of the fields of the segmenter
\* ---------------------------------------------------------------------

\* C39: after every call of process or finalize_segment, with a silence
\* threshold of at least 1 and at least 2 max frames: a segmenter that is
\* not speaking has no speech frames and both counters at 0; one that is
\* speaking has an empty pre-roll, fewer silent frames than the threshold
\* and fewer frames than max_frames; the pre-roll never holds more than
\* pre_buffer_max frames.
C39_FieldsOfTheSegmenter ==
    (vsm.silence_threshold >= 1 /\ vsm.max_frames >= 2) =>
        /\ ~vsm.is_speaking =>
               /\ vsm.speech_frames = <<>>
               /\ vsm.silence_count = 0
               /\ vsm.speech_frame_count = 0
        /\ vsm.is_speaking =>
               /\ vsm.pre_buffer = <<>>
               /\ vsm.silence_count < vsm.silence_threshold
               /\ vsm.speech_frame_count < vsm.max_frames
        /\ Len(vsm.pre_buffer) <= vsm.pre_buffer_max

\* After a first segment the segmenter is speaking again, one silent frame
\* short of the tail and one frame short of the forced split.
C39_Witness ==
    /\ vsm.silence_threshold >= 1
    /\ vsm.max_frames >= 2
    /\ vsm.segment_counter >= 1
    /\ vsm.is_speaking
    /\ vsm.silence_count = vsm.silence_threshold - 1
    /\ vsm.speech_frame_count = vsm.max_frames - 1

\* ---------------------------------------------------------------------
\* Properties of the mutexes and the waits, checked under SpecLocks.
\* ---------------------------------------------------------------------

Threads ==
    { Driver(t) : t \in Drivers }
        \cup { PipeThread(p, role) : p \in Pipelines, role \in Roles }

\* The thread that `th` waits for, Nobody if it can go on (or has nothing
\* to do): the owner of the mutex it wants, the thread it joins, the
\* receiver of the full channel it sends into.
WaitsFor(th) ==
    IF th[1] = "driver" THEN
        LET t == th[2]
        IN  IF lk[t].op = "idle" THEN Nobody
            ELSE IF StepAt(t)[1] = "lock" THEN mutex[StepAt(t)[2]]
            ELSE IF StepAt(t)[1] = "join"
                    /\ ~Ended(lk[t].victim, StepAt(t)[2])
                 THEN PipeThread(lk[t].victim, StepAt(t)[2])
            ELSE Nobody
    ELSE
        LET p == th[1]
        IN  IF th[2] = "capture" THEN
                IF pls[p].capture = "sending" /\ pls[p].vad # "done"
                        /\ pls[p].frames = "full"
                THEN PipeThread(p, "vad") ELSE Nobody
            ELSE IF th[2] = "vad" THEN
                IF pls[p].vad \in {"send", "flush"}
                        /\ pls[p].worker # "done"
                        /\ pls[p].segments = "full"
                THEN PipeThread(p, "worker") ELSE Nobody
            ELSE
                IF pls[p].worker = "lock_engine" THEN mutex["asr_engine"]
                ELSE IF pls[p].worker = "lock_db"
                     THEN mutex["transcription_db"]
                ELSE Nobody

RECURSIVE WaitLeadsTo(_, _, _)
\* From `th` the waits lead to `target` in at most n further steps.
WaitLeadsTo(th, target, n) ==
    IF th = target THEN TRUE
    ELSE IF n = 0 \/ WaitsFor(th) = Nobody THEN FALSE
    ELSE WaitLeadsTo(WaitsFor(th), target, n - 1)

====
